---- MODULE Spec2Model ----
(***************************************************************************)
(* Trading engine, risk manager and portfolio of spbook-trader             *)
(* (crates/models/src/betting.rs, crates/services/src/trader.rs).          *)
(*                                                                         *)
(* Number representation.  Decimal money is an integer number of cents,    *)
(* Decimal odds an integer number of tenths, f64 probabilities, edges and  *)
(* confidences whole percents, f64 quotients exact rationals <<num, den>>  *)
(* with den > 0.  The inputs are chosen so that every Decimal product the  *)
(* code forms (stake * odds) is a whole number of cents, as it is exact in *)
(* rust_decimal.                                                           *)
(***************************************************************************)
EXTENDS Integers, Sequences, FiniteSets, TLC

VARIABLES
    portfolio,      \* TradingEngine.portfolio / a stand-alone Portfolio
    market_odds,    \* TradingEngine.market_odds: match id -> odds or NoOdds
    trade_count,    \* TradingEngine.trade_count
    initial,        \* the initial_bankroll the portfolio/engine was built with
    next_id,        \* Uuid::new_v4(): ids handed out so far
    tasks,          \* per pipeline run (caller): position and locals
    step,           \* calls made so far by the sequential scenarios
    last,           \* the call that returned last, with what it returned
    sim,            \* MarketSimulator: base_margins, market_odds, rng draws made
    seen,           \* per match: the odds get_current_odds returned last
    locks,          \* the engine's three tokio RwLocks: guards held and waiters
    features,       \* FeatureEngineer: team_stats and match_contexts
    feed            \* DataFeedService: active_matches, the events sent

vars == <<portfolio, market_odds, trade_count, initial, next_id, tasks, step, last,
          sim, seen, locks, features, feed>>

----------------------------------------------------------------------------
(* Scales and bounds *)

Cents == 100        \* money unit: 1/100
OddsScale == 10     \* odds unit: 1/10
Pct == 100          \* probability, confidence, risk score unit: 1/100

NumTasks == 1       \* concurrent pipeline runs / callers
MaxBets == 2        \* bets placed (active or settled) in one run
MaxSimOps == 2      \* state-changing simulator calls in one run
SeqLen == 12        \* length of the sequential scenarios (12 signals)

Tasks == 1..NumTasks

\* Match ids: a league tag (the first three characters of the id) and a number.
Match(l, n) == [league |-> l, no |-> n]
Matches == { Match("epl", 1), Match("lal", 1) }
SeqMatches == { Match("mat", n) : n \in 1..SeqLen }
AllMatches == Matches \cup SeqMatches
Prefix3(m) == m.league

BetTypes == {"HomeWin", "Draw", "AwayWin"}
Outcomes == {"HomeWin", "Draw", "AwayWin"}

NoOdds == [none |-> TRUE]
NoBet == [none |-> TRUE]
NoProb == -1

----------------------------------------------------------------------------
(* Rationals standing for f64 values *)

Rat(n, d) == <<n, d>>
RatZero == <<0, 1>>
RatGT(a, b) == a[1] * b[2] > b[1] * a[2]
RatGE(a, b) == a[1] * b[2] >= b[1] * a[2]
RatMax(a, b) == IF RatGE(a, b) THEN a ELSE b
RatMin(a, b) == IF RatGE(a, b) THEN b ELSE a
RatMul(a, b) == <<a[1] * b[1], a[2] * b[2]>>
Min(a, b) == IF a <= b THEN a ELSE b
Max(a, b) == IF a >= b THEN a ELSE b

RECURSIVE SumStakes(_)
SumStakes(bets) ==
    IF bets = <<>> THEN 0 ELSE Head(bets).stake + SumStakes(Tail(bets))

----------------------------------------------------------------------------
(* BettingDecision (betting.rs) *)

Ok(v) == [ok |-> TRUE, value |-> v]
Err(e) == [ok |-> FALSE, err |-> e]

\* BettingDecision::new; id is the Uuid::new_v4() it draws, p the true
\* probability in percent.
BettingDecision_new_unchecked(id, match_id, bet_type, stake, odds, p, strategy) ==
    LET b == odds - OddsScale
        kelly == IF b > 0
                 THEN Rat(p * odds - Pct * OddsScale, Pct * b)
                 ELSE RatZero
    IN Ok([id |-> id, match_id |-> match_id, bet_type |-> bet_type,
           stake |-> stake, odds |-> odds,
           expected_value |-> Rat(p * odds - Pct * OddsScale, Pct * OddsScale),
           kelly_fraction |-> RatMax(kelly, RatZero),
           confidence |-> Rat(p * odds - Pct * OddsScale, Pct * odds),
           strategy |-> strategy, status |-> "Pending"])

BettingDecision_new_unfloored(id, match_id, bet_type, stake, odds, p, strategy) ==
    IF stake <= 0 THEN Err("InvalidStake")
    ELSE IF odds <= OddsScale THEN Err("InvalidOdds")
    ELSE
      LET b == odds - OddsScale
      IN Ok([id |-> id, match_id |-> match_id, bet_type |-> bet_type,
             stake |-> stake, odds |-> odds,
             expected_value |-> Rat(p * odds - Pct * OddsScale, Pct * OddsScale),
             kelly_fraction |-> Rat(p * odds - Pct * OddsScale, Pct * b),
             confidence |-> Rat(p * odds - Pct * OddsScale, Pct * odds),
             strategy |-> strategy, status |-> "Pending"])

BettingDecision_new(id, match_id, bet_type, stake, odds, p, strategy) ==
    IF stake <= 0 THEN Err("InvalidStake")
    ELSE IF odds <= OddsScale THEN Err("InvalidOdds")
    ELSE
      LET \* b = odds - 1, q = 1 - p; (b*p - q)/b
          b == odds - OddsScale
          kelly == IF b > 0
                   THEN Rat(p * odds - Pct * OddsScale, Pct * b)
                   ELSE RatZero
      IN Ok([id |-> id, match_id |-> match_id, bet_type |-> bet_type,
             stake |-> stake, odds |-> odds,
             expected_value |-> Rat(p * odds - Pct * OddsScale, Pct * OddsScale),
             kelly_fraction |-> RatMax(kelly, RatZero),
             confidence |-> Rat(p * odds - Pct * OddsScale, Pct * odds),
             strategy |-> strategy, status |-> "Pending"])

\* Mutant: the profit (stake * (odds - 1)) in place of the payout.
potential_payout_profit(bet) == (bet.stake * (bet.odds - OddsScale)) \div OddsScale

potential_payout(bet) == (bet.stake * bet.odds) \div OddsScale

update_status(bet, status) == [bet EXCEPT !.status = status]

is_active(bet) == bet.status \in {"Pending", "Placed"}

----------------------------------------------------------------------------
(* BettingStrategy (betting.rs) *)

conservative ==
    [name |-> "Conservative Value", min_odds |-> 15, max_odds |-> 30,
     min_edge |-> 5, max_stake_percent |-> 2, kelly_multiplier |-> 25,
     min_confidence |-> 80]

aggressive ==
    [name |-> "Aggressive Growth", min_odds |-> 12, max_odds |-> 100,
     min_edge |-> 1, max_stake_percent |-> 10, kelly_multiplier |-> 75,
     min_confidence |-> 40]

moderate ==
    [name |-> "Moderate Growth", min_odds |-> 13, max_odds |-> 50,
     min_edge |-> 3, max_stake_percent |-> 5, kelly_multiplier |-> 50,
     min_confidence |-> 60]

should_bet_any_edge(s, odds, p, confidence) ==
    /\ odds >= s.min_odds
    /\ odds <= s.max_odds
    /\ p * odds - Pct * OddsScale >= 0
    /\ confidence >= s.min_confidence

\* edge = p - 1/odds >= min_edge, multiplied out by odds > 0
should_bet(s, odds, p, confidence) ==
    /\ odds >= s.min_odds
    /\ odds <= s.max_odds
    /\ p * odds - Pct * OddsScale >= s.min_edge * odds
    /\ confidence >= s.min_confidence

\* min(bankroll * kelly * multiplier, bankroll * max_stake_percent), >= 0
calculate_stake(s, bankroll, kelly) ==
    LET kelly_stake == Rat(bankroll * kelly[1] * s.kelly_multiplier, kelly[2] * Pct)
        max_stake == Rat(bankroll * s.max_stake_percent, Pct)
        m == RatMin(kelly_stake, max_stake)
    IN Max(m[1] \div m[2], 0)

----------------------------------------------------------------------------
(* Portfolio (betting.rs) *)

Portfolio_new(initial_bankroll) ==
    [total_bankroll |-> initial_bankroll,
     available_bankroll |-> initial_bankroll,
     active_bets |-> <<>>,
     historical_bets |-> <<>>,
     total_profit_loss |-> 0,
     roi |-> RatZero,
     win_rate |-> RatZero]

\* Mutant: no funds check.
place_bet_unchecked(p, bet) ==
    [p |-> [p EXCEPT !.available_bankroll = @ - bet.stake,
                     !.active_bets = Append(@, update_status(bet, "Placed"))],
     res |-> Ok(TRUE)]

\* Mutant: the funds check after the stake has been taken.
place_bet_late_check(p, bet) ==
    [p |-> [p EXCEPT !.available_bankroll = @ - bet.stake,
                     !.active_bets = IF bet.stake > p.available_bankroll THEN @
                                     ELSE Append(@, update_status(bet, "Placed"))],
     res |-> IF bet.stake > p.available_bankroll THEN Err("InvalidStake")
             ELSE Ok(TRUE)]

\* Portfolio::place_bet: the portfolio afterwards and the Result returned
place_bet(p, bet) ==
    IF bet.stake > p.available_bankroll
    THEN [p |-> p, res |-> Err("InvalidStake")]
    ELSE [p |-> [p EXCEPT !.available_bankroll = @ - bet.stake,
                          !.active_bets = Append(@, update_status(bet, "Placed"))],
          res |-> Ok(TRUE)]

\* position(|bet| bet.id == bet_id): the first index, 0 when there is none
position(bets, bet_id) ==
    IF \E i \in 1..Len(bets) : bets[i].id = bet_id
    THEN CHOOSE i \in 1..Len(bets) :
            /\ bets[i].id = bet_id
            /\ \A j \in 1..(i - 1) : bets[j].id # bet_id
    ELSE 0

\* Vec::remove(index)
remove(bets, i) == SubSeq(bets, 1, i - 1) \o SubSeq(bets, i + 1, Len(bets))

Won(bets) == SelectSeq(bets, LAMBDA b : b.status = "Won")

update_metrics(p) ==
    IF p.historical_bets = <<>> THEN p
    ELSE
      LET total_bets == Len(p.historical_bets)
          won_bets == Len(Won(p.historical_bets))
          total_staked == SumStakes(p.historical_bets)
      IN [p EXCEPT !.win_rate = Rat(won_bets, total_bets),
                   !.roi = IF total_staked > 0
                           THEN Rat(p.total_profit_loss, total_staked)
                           ELSE @]

\* Mutant: the stake is not taken off the profit.
settle_bet_gross(p, bet_id, won) ==
    LET bet_index == position(p.active_bets, bet_id) IN
    IF bet_index = 0
    THEN [p |-> p, res |-> Err("MatchNotFound")]
    ELSE
      LET bet == p.active_bets[bet_index]
          settled == update_status(bet, IF won THEN "Won" ELSE "Lost")
          payout == IF won THEN potential_payout(settled) ELSE 0
      IN [p |-> update_metrics(
                  [p EXCEPT !.active_bets = remove(@, bet_index),
                            !.available_bankroll = @ + payout,
                            !.total_profit_loss = @ + payout,
                            !.historical_bets = Append(@, settled)]),
          res |-> Ok(TRUE)]

\* Portfolio::settle_bet
settle_bet(p, bet_id, won) ==
    LET bet_index == position(p.active_bets, bet_id) IN
    IF bet_index = 0
    THEN [p |-> p, res |-> Err("MatchNotFound")]
    ELSE
      LET bet == p.active_bets[bet_index]
          settled == update_status(bet, IF won THEN "Won" ELSE "Lost")
          payout == IF won THEN potential_payout(settled) ELSE 0
          profit_loss == payout - bet.stake
      IN [p |-> update_metrics(
                  [p EXCEPT !.active_bets = remove(@, bet_index),
                            !.available_bankroll = @ + payout,
                            !.total_profit_loss = @ + profit_loss,
                            !.historical_bets = Append(@, settled)]),
          res |-> Ok(TRUE)]

total_exposure(p) == SumStakes(p.active_bets)

----------------------------------------------------------------------------
(* TradingEngine (trader.rs) *)

RiskManager_new(initial_bankroll) ==
    [max_daily_loss |-> (initial_bankroll * 5) \div Pct,
     max_concurrent_bets |-> 10,
     max_exposure_per_match |-> (initial_bankroll * 10) \div Pct,
     correlation_threshold |-> 70,
     current_daily_loss |-> 0]

\* &self.risk_manager: set by TradingEngine::new, never written afterwards
risk_manager == RiskManager_new(initial)

get_active_strategy == moderate

OnMatch(bets, match_id) == SelectSeq(bets, LAMBDA b : b.match_id = match_id)

apply_risk_constraints(rm, proposed_stake, match_id, p) ==
    LET s1 == IF proposed_stake > p.available_bankroll
              THEN (p.available_bankroll * 95) \div Pct
              ELSE proposed_stake
        current_match_exposure == SumStakes(OnMatch(p.active_bets, match_id))
        s2 == IF current_match_exposure + s1 > rm.max_exposure_per_match
              THEN Max(rm.max_exposure_per_match - current_match_exposure, 0)
              ELSE s1
        s3 == IF rm.current_daily_loss + s2 > rm.max_daily_loss
              THEN Max(rm.max_daily_loss - rm.current_daily_loss, 0)
              ELSE s2
    IN IF Len(p.active_bets) >= rm.max_concurrent_bets THEN 0 ELSE s3

\* Mutant: the decision is built once, with a stake of 1.0, and returned as
\* it is, so that a leg with an edge yields a bet.
analyze_bet_opportunity_flat(rm, p, id, match_id, bet_type, true_probability, odds, confidence) ==
    LET strategy == get_active_strategy IN
    IF ~should_bet(strategy, odds, true_probability, confidence)
    THEN Ok(NoBet)
    ELSE BettingDecision_new(id, match_id, bet_type, Cents, odds,
                             true_probability, strategy.name)

\* Ok(NoBet) for Ok(None), Ok(bet) for Ok(Some(bet)), Err for a failed `?`
analyze_bet_opportunity(rm, p, id, match_id, bet_type, true_probability, odds, confidence) ==
    LET strategy == get_active_strategy IN
    IF ~should_bet(strategy, odds, true_probability, confidence)
    THEN Ok(NoBet)
    ELSE
      LET bet == BettingDecision_new(id, match_id, bet_type, 0, odds,
                                     true_probability, strategy.name)
      IN IF ~bet.ok THEN bet
         ELSE
           LET kelly_stake == calculate_stake(strategy, p.available_bankroll,
                                              bet.value.kelly_fraction)
               adjusted_stake == apply_risk_constraints(rm, kelly_stake, match_id, p)
           IN IF adjusted_stake <= 0 THEN Ok(NoBet)
              ELSE BettingDecision_new(id, match_id, bet_type, adjusted_stake,
                                       odds, true_probability, strategy.name)

SameLeague(bets, match_id) ==
    SelectSeq(bets, LAMBDA b : Prefix3(b.match_id) = Prefix3(match_id))

\* min(same_league_bets * 0.2, 1.0), in percent
calculate_correlation_risk(p, match_id) ==
    Min(Len(SameLeague(p.active_bets, match_id)) * 20, Pct)

\* RiskAssessment.risk_score, in percent
assess_risk(rm, p, match_id, bet) ==
    IF bet = NoBet THEN 0
    ELSE
      Min(Pct,
          (IF bet.stake * Pct > 5 * p.total_bankroll THEN 30 ELSE 0)
        + (IF bet.odds > 5 * OddsScale THEN 20 ELSE 0)
        + (IF RatGT(bet.kelly_fraction, Rat(10, Pct)) THEN 20 ELSE 0)
        + (IF calculate_correlation_risk(p, match_id) > rm.correlation_threshold
           THEN 30 ELSE 0))

Signal(match_id, strength, bet, risk, reasoning) ==
    [match_id |-> match_id, signal_strength |-> strength,
     recommended_bet |-> bet, risk_score |-> risk, reasoning |-> reasoning]

\* `if bet.confidence > best_edge { best_edge = bet.confidence; best_bet =
\* Some(bet) }` for the result r of one leg: best_edge is 0.0 while best_bet
\* is None and the confidence of best_bet afterwards.
BestEdge(best) == IF best = NoBet THEN RatZero ELSE best.confidence

Better(best, r) ==
    IF r.value # NoBet /\ RatGT(r.value.confidence, BestEdge(best))
    THEN r.value ELSE best

Reasoning(best) ==
    IF best = NoBet THEN ""
    ELSE IF best.bet_type = "HomeWin" THEN "Home win edge"
    ELSE IF best.bet_type = "Draw" THEN "Draw edge"
    ELSE "Away win edge"

Drawn(r) == IF r.ok /\ r.value # NoBet THEN 1 ELSE 0

\* [res, ids]: Ok(signal) or the Err of the first leg whose `?` fails; ids
\* counts the Uuid::new_v4() draws.  The legs run in the order home, draw
\* (when the prediction has a draw probability), away.
generate_trading_signal(rm, p, id0, prediction, odds) ==
    LET home == analyze_bet_opportunity(rm, p, id0 + 1, prediction.match_id,
                    "HomeWin", prediction.home_win_prob, odds.home_win,
                    prediction.confidence)
        draw == IF prediction.draw_prob = NoProb THEN Ok(NoBet)
                ELSE analyze_bet_opportunity(rm, p, id0 + 2, prediction.match_id,
                         "Draw", prediction.draw_prob, odds.draw,
                         prediction.confidence)
        away == analyze_bet_opportunity(rm, p, id0 + 3, prediction.match_id,
                    "AwayWin", prediction.away_win_prob, odds.away_win,
                    prediction.confidence)
    IN IF ~home.ok THEN [res |-> home, ids |-> 0]
       ELSE IF ~draw.ok THEN [res |-> draw, ids |-> Drawn(home)]
       ELSE IF ~away.ok THEN [res |-> away, ids |-> Drawn(home) + Drawn(draw)]
       ELSE
         LET best_bet == Better(Better(Better(NoBet, home), draw), away)
             risk == assess_risk(rm, p, prediction.match_id, best_bet)
             strength ==
                 IF best_bet # NoBet
                 THEN RatMin(RatMul(BestEdge(best_bet),
                                    Rat(prediction.confidence, Pct)),
                             Rat(1, 1))
                 ELSE RatZero
         IN [res |-> Ok(Signal(prediction.match_id, strength, best_bet, risk,
                               Reasoning(best_bet))),
             ids |-> Drawn(home) + Drawn(draw) + Drawn(away)]

\* Mutant: default odds for a match the engine holds none for.
get_market_odds_or_default(mo, match_id) ==
    IF mo[match_id] = NoOdds
    THEN [home_win |-> 20, draw |-> 20, away_win |-> 20]
    ELSE mo[match_id]

get_market_odds(mo, match_id) == mo[match_id]

NoOddsSignal(match_id) ==
    Signal(match_id, RatZero, NoBet, 0, "No market odds available")

\* process_prediction as one call: [res, ids]
process_prediction(rm, p, mo, id0, prediction) ==
    LET odds == get_market_odds(mo, prediction.match_id) IN
    IF odds = NoOdds
    THEN [res |-> Ok(NoOddsSignal(prediction.match_id)), ids |-> 0]
    ELSE generate_trading_signal(rm, p, id0, prediction, odds)

\* Mutant: no risk gate.
execute_trade_ungated(p, count, signal) ==
    IF signal.recommended_bet # NoBet
    THEN LET placed == place_bet(p, signal.recommended_bet) IN
         IF ~placed.res.ok
         THEN [p |-> p, count |-> count, res |-> placed.res]
         ELSE [p |-> placed.p, count |-> count + 1, res |-> Ok(TRUE)]
    ELSE [p |-> p, count |-> count, res |-> Ok(FALSE)]

\* execute_trade: [p, count, res]
execute_trade(p, count, signal) ==
    IF signal.recommended_bet # NoBet
    THEN IF signal.risk_score > 80
         THEN [p |-> p, count |-> count, res |-> Ok(FALSE)]
         ELSE LET placed == place_bet(p, signal.recommended_bet) IN
              IF ~placed.res.ok
              THEN [p |-> p, count |-> count, res |-> placed.res]
              ELSE [p |-> placed.p, count |-> count + 1, res |-> Ok(TRUE)]
    ELSE [p |-> p, count |-> count, res |-> Ok(FALSE)]

\* Mutant: the match arm of the draw is missing.
determine_bet_result_nodraw(p, bet_id, outcome) ==
    LET i == position(p.active_bets, bet_id) IN
    IF i = 0 THEN Err("MatchNotFound")
    ELSE Ok(p.active_bets[i].bet_type = outcome /\ outcome # "Draw")

\* determine_bet_result: the first active bet with the id decides
determine_bet_result(p, bet_id, outcome) ==
    LET i == position(p.active_bets, bet_id) IN
    IF i = 0 THEN Err("MatchNotFound")
    ELSE Ok(p.active_bets[i].bet_type = outcome)

RECURSIVE SettleAll(_, _, _)
SettleAll(p, bet_ids, outcome) ==
    IF bet_ids = <<>> THEN [p |-> p, res |-> Ok(TRUE)]
    ELSE
      LET won == determine_bet_result(p, Head(bet_ids), outcome) IN
      IF ~won.ok THEN [p |-> p, res |-> won]
      ELSE LET s == settle_bet(p, Head(bet_ids), won.value) IN
           IF ~s.res.ok THEN s
           ELSE SettleAll(s.p, Tail(bet_ids), outcome)

Ids(bets) == [i \in 1..Len(bets) |-> bets[i].id]

\* TradingEngine::settle_bet
engine_settle_bet(p, match_id, outcome) ==
    SettleAll(p, Ids(OnMatch(p.active_bets, match_id)), outcome)

\* get_portfolio_summary
get_portfolio_summary(p, count) ==
    [total_bankroll |-> p.total_bankroll,
     available_bankroll |-> p.available_bankroll,
     total_exposure |-> total_exposure(p),
     active_bets_count |-> Len(p.active_bets),
     total_trades |-> count,
     roi |-> p.roi, win_rate |-> p.win_rate,
     profit_loss |-> p.total_profit_loss]

----------------------------------------------------------------------------
(* MarketSimulator (market_simulator.rs).  f64 probabilities, margins and  *)
(* rng draws are held in 1/10000, odds in tenths like every other Decimal  *)
(* odds, and each f64 division is the integer division of the scaled       *)
(* values.                                                                 *)

PScale == 10000
NoMargin == -1

League(m) == IF m.league = "epl" THEN "Premier League" ELSE "La Liga"

MatchEvent(m, type, team, minute, card_type) ==
    [match_id |-> m, league |-> League(m), event_type |-> type,
     team |-> team, minute |-> minute, card_type |-> card_type]

\* calls: state-changing simulator calls made so far
MarketSimulator_new ==
    [base_margins |-> [m \in Matches |-> NoMargin],
     market_odds |-> [m \in Matches |-> NoOdds],
     calls |-> 0]

Normalize3(x) ==
    LET total == x[1] + x[2] + x[3]
    IN << (x[1] * PScale) \div total, (x[2] * PScale) \div total,
          (x[3] * PScale) \div total >>

Clamp(x, lo, hi) == Min(Max(x, lo), hi)

calculate_base_probabilities(event) ==
    LET league_competitiveness ==
            CASE event.league = "Premier League" -> 90
              [] event.league = "La Liga" -> 80
              [] event.league = "Bundesliga" -> 70
              [] OTHER -> 60
        away_prob == 3150
        draw_prob == 2500 + league_competitiveness * 5
    IN << PScale - draw_prob - away_prob, draw_prob, away_prob >>

\* x = <<home_prob, draw_prob, away_prob>>
adjust_for_match_state(event, x) ==
    LET remaining == 90 - Min(event.minute, 90)
        moved ==
          CASE event.event_type = "Goal" ->
                 LET adjustment == (1000 * remaining) \div 90 IN
                 IF event.team = "home"
                 THEN << x[1] + adjustment, x[2] - adjustment \div 2,
                         x[3] - adjustment \div 2 >>
                 ELSE << x[1] - adjustment \div 2, x[2] - adjustment \div 2,
                         x[3] + adjustment >>
            [] event.event_type = "Card" ->
                 LET severity == IF event.card_type = "Red" THEN 1500 ELSE 200
                     adjustment == (severity * remaining) \div 90
                 IN IF event.team = "home"
                    THEN << x[1] - adjustment, x[2] + (adjustment * 3) \div 10,
                            x[3] + (adjustment * 7) \div 10 >>
                    ELSE << x[1] + (adjustment * 7) \div 10,
                            x[2] + (adjustment * 3) \div 10, x[3] - adjustment >>
            [] OTHER -> x
        valid == IF moved[1] + moved[2] + moved[3] > 0 THEN Normalize3(moved)
                 ELSE moved
    IN Normalize3(<< Clamp(valid[1], 1000, 8000), Clamp(valid[2], 1000, 4000),
                     Clamp(valid[3], 1000, 8000) >>)

\* Decimal::from_f64_retain(1.0 / adjusted).unwrap_or(default): None for inf
OddsFromProb(adjusted, default) ==
    IF adjusted = 0 THEN default ELSE (PScale * OddsScale) \div adjusted

\* SimpleMarketOdds::from_probabilities
from_probabilities(home_prob, draw_prob, away_prob, margin) ==
    LET total_prob == home_prob + draw_prob + away_prob
        adjusted_total == (total_prob * (PScale + margin)) \div PScale
        adjusted(prob) == (((prob * PScale) \div total_prob) * adjusted_total) \div PScale
    IN [home_win |-> OddsFromProb(adjusted(home_prob), 2 * OddsScale),
        draw |-> OddsFromProb(adjusted(draw_prob), 3 * OddsScale),
        away_win |-> OddsFromProb(adjusted(away_prob), 2 * OddsScale)]

\* drawn: what rng.gen_range(0.02..0.08) yields if the match has no margin
get_margin_for_match(s, match_id, drawn) ==
    IF s.base_margins[match_id] # NoMargin THEN s.base_margins[match_id]
    ELSE drawn

set_margin_for_match_clearing(s, match_id, margin) ==
    [s EXCEPT !.base_margins[match_id] = margin,
              !.market_odds[match_id] = NoOdds]

set_margin_for_match(s, match_id, margin) ==
    [s EXCEPT !.base_margins[match_id] = margin]

\* noise: the three rng.gen_range(-noise_factor..noise_factor) draws
generate_market_odds(s, event, noise, drawn) ==
    LET adjusted == adjust_for_match_state(event, calculate_base_probabilities(event))
        x == Normalize3(<< adjusted[1] + noise[1], adjusted[2] + noise[2],
                           adjusted[3] + noise[3] >>)
        margin == get_margin_for_match(s, event.match_id, drawn)
        odds == from_probabilities(x[1], x[2], x[3], margin)
    IN [sim |-> [s EXCEPT !.market_odds[event.match_id] = odds],
        res |-> Ok(odds)]

\* Mutant: odds are regenerated for every kind of event.
update_odds_for_event_all(s, event, noise, drawn) ==
    generate_market_odds(s, event, noise, drawn)

\* Ok(NoOdds) for Ok(None)
update_odds_for_event(s, event, noise, drawn) ==
    IF event.event_type \in {"Goal", "Card"}
    THEN generate_market_odds(s, event, noise, drawn)
    ELSE [sim |-> s, res |-> Ok(NoOdds)]

\* 1.0 / p as Decimal odds, times edge_factor; `inf` has no Decimal
EdgeOdds(p, edge_factor, default) ==
    IF p = 0 THEN default
    ELSE (OddsScale * Pct * edge_factor) \div (p * PScale)

\* drawn: rng.gen_range(0.0..0.02)
generate_odds_with_edge(s, prediction, target_edge, drawn) ==
    LET edge_factor == PScale + target_edge + drawn
        odds ==
          [home_win |-> EdgeOdds(prediction.home_win_prob, edge_factor, 2 * OddsScale),
           draw |-> IF prediction.draw_prob = NoProb
                    THEN (3 * OddsScale * edge_factor) \div PScale
                    ELSE EdgeOdds(prediction.draw_prob, edge_factor, 3 * OddsScale),
           away_win |-> EdgeOdds(prediction.away_win_prob, edge_factor, 2 * OddsScale)]
    IN [sim |-> [s EXCEPT !.market_odds[prediction.match_id] = odds],
        res |-> Ok(odds)]

get_current_odds(s, match_id) == s.market_odds[match_id]

\* time_factor in percent; dirs: the three rng.gen_range(-volatility..
\* volatility) draws as -1, 0 or 1 times half the volatility
simulate_market_movement(s, match_id, time_factor, dirs, drawn) ==
    LET odds == get_current_odds(s, match_id) IN
    IF odds = NoOdds THEN s
    ELSE
      LET volatility == (500 * (2 * Pct - time_factor)) \div (2 * Pct)
          change(i) == dirs[i] * (volatility \div 2)
          prob(o) == (PScale * OddsScale) \div o
          x == Normalize3(
                 << Clamp(prob(odds.home_win) + change(1), 1000, 8000),
                    Clamp(prob(odds.draw) + change(2), 1000, 4000),
                    Clamp(prob(odds.away_win) + change(3), 1000, 8000) >>)
          margin == get_margin_for_match(s, match_id, drawn)
      IN [s EXCEPT !.market_odds[match_id] =
                      from_probabilities(x[1], x[2], x[3], margin)]

----------------------------------------------------------------------------
(* Inputs *)

InitialBankrolls == { 1000 * Cents }

\* The BettingDecisions callers hold, each built once by BettingDecision::new
\* (its id the Uuid::new_v4() of that call) and wrapped in a TradingSignal
\* literal with a risk score, as tests/trading_engine_tests.rs does.  Stake
\* 100 at odds 2.0 is the scenario of betting.rs::test_portfolio_management.
SignalInputs ==
    { [id |-> 1, match_id |-> Match("epl", 1), bet_type |-> "HomeWin",
       stake |-> 100 * Cents, odds |-> 20, p |-> 60, risk |-> 30],
      [id |-> 2, match_id |-> Match("epl", 1), bet_type |-> "Draw",
       stake |-> 600 * Cents, odds |-> 25, p |-> 50, risk |-> 0],
      [id |-> 3, match_id |-> Match("lal", 1), bet_type |-> "AwayWin",
       stake |-> 600 * Cents, odds |-> 20, p |-> 60, risk |-> 0],
      [id |-> 4, match_id |-> Match("lal", 1), bet_type |-> "HomeWin",
       stake |-> 100 * Cents, odds |-> 25, p |-> 60, risk |-> 90] }

BetIds == { in.id : in \in SignalInputs }
\* 0 stands for a Uuid no bet carries
SettleIds == BetIds \cup {0}

BetOf(in) ==
    BettingDecision_new(in.id, in.match_id, in.bet_type, in.stake, in.odds,
                        in.p, "moderate").value

SignalOf(in) == Signal(in.match_id, Rat(60, Pct), BetOf(in), in.risk, "Test bet")

Prediction(m, h, d, a, c) ==
    [match_id |-> m, home_win_prob |-> h, draw_prob |-> d,
     away_win_prob |-> a, confidence |-> c]

\* 60/20/20 at confidence 0.8 is the prediction of
\* tests/trading_engine_tests.rs; the second has no draw leg and fails the
\* confidence gate.
Predictions ==
    { Prediction(Match("epl", 1), 60, 20, 20, 80),
      Prediction(Match("lal", 1), 60, NoProb, 40, 50) }

InRange(prob) == 0 <= prob /\ prob <= Pct
Abs(x) == IF x < 0 THEN -x ELSE x

\* Prediction::new; confidence starts at 0.0
Prediction_new(match_id, home_win_prob, away_win_prob) ==
    LET total_prob == home_win_prob + away_win_prob IN
    IF ~InRange(home_win_prob) THEN Err("InvalidProbability")
    ELSE IF ~InRange(away_win_prob) THEN Err("InvalidProbability")
    ELSE IF total_prob > Pct THEN Err("InvalidProbability")
    ELSE Ok(Prediction(match_id, home_win_prob,
                       IF total_prob < Pct THEN Pct - total_prob ELSE NoProb,
                       away_win_prob, 0))

with_draw_prob_unsummed(self, draw_prob) ==
    IF ~InRange(draw_prob) THEN Err("InvalidProbability")
    ELSE Ok([self EXCEPT !.draw_prob = draw_prob])

\* Prediction::with_draw_prob; (total - 1.0).abs() > 0.001
with_draw_prob(self, draw_prob) ==
    LET total == self.home_win_prob + self.away_win_prob + draw_prob IN
    IF ~InRange(draw_prob) THEN Err("InvalidProbability")
    ELSE IF Abs(total - Pct) * 1000 > Pct THEN Err("InvalidProbability")
    ELSE Ok([self EXCEPT !.draw_prob = draw_prob])

Odds(h, d, a) == [home_win |-> h, draw |-> d, away_win |-> a]

\* 2.5/4.0/4.0 undervalues a 60% home win (tests/trading_engine_tests.rs)
OddsChoices == { Odds(25, 40, 40) }

----------------------------------------------------------------------------
(* State *)

\* seen[m]: what get_current_odds(m) returned last, since the last
\* generate_market_odds/update_odds_for_event call and since the last call
\* that stores odds for m, and whether no state-changing simulator call
\* was made since
(***************************************************************************)
(* tokio::sync::RwLock as the engine uses it: any number of read guards or *)
(* one write guard, and a first-in first-out queue of waiters.  A request  *)
(* is granted at once only when nobody is queued and the guards held allow *)
(* it, so a reader that arrives after a queued writer waits behind it.     *)
(***************************************************************************)
NumWorkers == 2
Workers == 1..NumWorkers
NoTask == 0

RwLock_new == [readers |-> [w \in Workers |-> 0], writer |-> NoTask,
               queue |-> <<>>]

EngineLocks == [portfolio |-> RwLock_new, market_odds |-> RwLock_new,
                trade_count |-> RwLock_new]

Compatible(l, mode) ==
    IF mode = "write"
    THEN l.writer = NoTask /\ \A w \in Workers : l.readers[w] = 0
    ELSE l.writer = NoTask

Grant(l, w, mode) ==
    IF mode = "write" THEN [l EXCEPT !.writer = w]
    ELSE [l EXCEPT !.readers[w] = @ + 1]

\* lock.read() / lock.write(): the first poll of the future
acquire(l, w, mode) ==
    IF l.queue = <<>> /\ Compatible(l, mode) THEN Grant(l, w, mode)
    ELSE [l EXCEPT !.queue = Append(@, [task |-> w, mode |-> mode])]

RECURSIVE Wake(_)
Wake(l) ==
    IF l.queue # <<>> /\ Compatible(l, Head(l.queue).mode)
    THEN Wake([Grant(l, Head(l.queue).task, Head(l.queue).mode)
                 EXCEPT !.queue = Tail(l.queue)])
    ELSE l

\* drop of a guard: the waiters at the head of the queue are served
release(l, w, mode) ==
    Wake(IF mode = "write" THEN [l EXCEPT !.writer = NoTask]
         ELSE [l EXCEPT !.readers[w] = @ - 1])

Queued(l, w) == \E i \in DOMAIN l.queue : l.queue[i].task = w


NotReturned == [none |-> TRUE, unseen |-> TRUE]
Unseen == [since_generate |-> NotReturned, since_write |-> NotReturned,
           quiet |-> FALSE]

Idle == [pc |-> "idle"]
Awaiting(pred, odds) == [pc |-> "pp_signal", pred |-> pred, odds |-> odds]
Holding(signal) == [pc |-> "has_signal", signal |-> signal]

Placements == Len(portfolio.active_bets) + Len(portfolio.historical_bets)

\* Uuid::new_v4() inside the engine: ids no caller-built bet carries
FreshId == Cardinality(SignalInputs) + next_id

(* FeatureEngineer and DataFeedService as constructed (features.rs,       *)
(* data_feed.rs)                                                           *)

FormTeams == { "Arsenal", "Chelsea", "Real Madrid", "Barcelona" }
NoStats == [none |-> TRUE]
NoContext == [none |-> TRUE]
NoState == [none |-> TRUE]

\* TeamStats::default(): the fields update_team_stats writes, except
\* elo_rating (an f64 built with powf, read by no other field's update);
\* attack_strength and defense_strength are exact rationals
TeamStats_default ==
    [goals_for |-> 0, goals_against |-> 0, recent_form |-> <<>>,
     attack_strength |-> Rat(1, 1), defense_strength |-> Rat(1, 1)]

\* results: per team, the result of every update_team_stats call so far,
\* in call order (history, not a field of the struct)
FeatureEngineer_new ==
    [team_stats |-> [t \in FormTeams |-> NoStats],
     match_contexts |-> [m \in Matches |-> NoContext],
     results |-> [t \in FormTeams |-> <<>>],
     calls |-> 0]

\* generate_sample_matches(): the three matches, in the order of the Vec
SampleMatches == << Match("epl", 1), Match("epl", 2), Match("lal", 1) >>

DefaultBatch == 100     \* DataFeedConfig::default().max_events_per_batch

\* sent: every event sent so far on the channel, oldest first (history);
\* receiver_dropped: the other end of the channel is gone
DataFeedService_with(max_events_per_batch) ==
    [max_events_per_batch |-> max_events_per_batch,
     active_matches |-> [i \in DOMAIN SampleMatches |-> NoState],
     sent |-> [i \in DOMAIN SampleMatches |-> <<>>],
     receiver_dropped |-> FALSE]

DataFeedService_new == DataFeedService_with(DefaultBatch)

Init ==
    /\ initial \in InitialBankrolls
    /\ portfolio = Portfolio_new(initial)
    /\ market_odds = [m \in AllMatches |-> NoOdds]
    /\ trade_count = 0
    /\ next_id = 0
    /\ tasks = [t \in Tasks |-> Idle]
    /\ step = 0
    /\ last = [op |-> "new"]
    /\ sim = MarketSimulator_new
    /\ seen = [m \in Matches |-> Unseen]
    /\ locks = EngineLocks
    /\ features = FeatureEngineer_new
    /\ feed = DataFeedService_new

----------------------------------------------------------------------------
(* A stand-alone Portfolio driven by place_bet and settle_bet *)

\* portfolio.place_bet(bet) of a bet a caller holds (or a clone of it)
PlaceBet(in) ==
    /\ Placements < MaxBets
    /\ LET r == place_bet(portfolio, BetOf(in)) IN
       /\ portfolio' = r.p
       /\ last' = [op |-> "place_bet", bet |-> BetOf(in), res |-> r.res]
    /\ UNCHANGED <<features, feed, locks, sim, seen, market_odds, trade_count, initial, next_id, tasks, step>>

\* portfolio.settle_bet(bet_id, won), for the id of a bet or of none
SettleBet(bet_id, won) ==
    /\ LET r == settle_bet(portfolio, bet_id, won) IN
       /\ portfolio' = r.p
       /\ last' = [op |-> "settle_bet", bet_id |-> bet_id, won |-> won,
                   res |-> r.res]
    /\ UNCHANGED <<features, feed, locks, sim, seen, market_odds, trade_count, initial, next_id, tasks, step>>

NextPortfolio ==
    \/ \E in \in SignalInputs : PlaceBet(in)
    \/ \E bet_id \in SettleIds, won \in BOOLEAN : SettleBet(bet_id, won)

SpecPortfolio == Init /\ [][NextPortfolio]_vars

----------------------------------------------------------------------------
(* A TradingEngine shared by callers and pipeline runs.  Every action is   *)
(* one section of a call between two lock acquisitions: the odds read of   *)
(* process_prediction (market_odds read lock), its signal generation       *)
(* (portfolio read lock), and the whole of execute_trade and settle_bet    *)
(* (portfolio write lock held from the first mutation to the return).      *)

\* process_prediction up to the odds lookup; without odds it returns here
ProcessPredictionOdds(t, pred) ==
    /\ tasks[t].pc = "idle"
    /\ LET odds == get_market_odds(market_odds, pred.match_id) IN
       IF odds = NoOdds
       THEN /\ tasks' = [tasks EXCEPT ![t] = Holding(NoOddsSignal(pred.match_id))]
            /\ last' = [op |-> "process_prediction", pred |-> pred,
                        odds |-> odds, res |-> Ok(NoOddsSignal(pred.match_id))]
       ELSE /\ tasks' = [tasks EXCEPT ![t] = Awaiting(pred, odds)]
            /\ last' = [op |-> "get_market_odds", res |-> odds]
    /\ UNCHANGED <<features, feed, locks, sim, seen, portfolio, market_odds, trade_count, initial, next_id, step>>

\* Mutant: process_prediction counts the signal it generated as a trade.
ProcessPredictionSignal_counting(t) ==
    /\ tasks[t].pc = "pp_signal"
    /\ LET g == generate_trading_signal(risk_manager, portfolio, FreshId,
                                        tasks[t].pred, tasks[t].odds)
       IN /\ tasks' = [tasks EXCEPT ![t] = IF g.res.ok THEN Holding(g.res.value)
                                                      ELSE Idle]
          /\ next_id' = next_id + g.ids
          /\ trade_count' = trade_count + 1
          /\ last' = [op |-> "process_prediction",
                      pred |-> tasks[t].pred, odds |-> tasks[t].odds,
                      res |-> g.res]
    /\ UNCHANGED <<features, feed, locks, sim, seen, portfolio, market_odds, initial, step>>

\* generate_trading_signal and the return of process_prediction
ProcessPredictionSignal(t) ==
    /\ tasks[t].pc = "pp_signal"
    /\ LET g == generate_trading_signal(risk_manager, portfolio, FreshId,
                                        tasks[t].pred, tasks[t].odds)
       IN /\ tasks' = [tasks EXCEPT ![t] = IF g.res.ok THEN Holding(g.res.value)
                                                      ELSE Idle]
          /\ next_id' = next_id + g.ids
          /\ last' = [op |-> "process_prediction",
                      pred |-> tasks[t].pred, odds |-> tasks[t].odds,
                      res |-> g.res]
    /\ UNCHANGED <<features, feed, locks, sim, seen, portfolio, market_odds, trade_count, initial, step>>

\* The caller hands the signal process_prediction returned to execute_trade
\* (main.rs does so for signals above a strength threshold).
ExecuteReturned(t) ==
    /\ tasks[t].pc = "has_signal"
    /\ Placements < MaxBets
    /\ LET r == execute_trade(portfolio, trade_count, tasks[t].signal) IN
       /\ portfolio' = r.p
       /\ trade_count' = r.count
       /\ last' = [op |-> "execute_trade", signal |-> tasks[t].signal,
                   res |-> r.res]
    /\ tasks' = [tasks EXCEPT ![t] = Idle]
    /\ UNCHANGED <<features, feed, locks, sim, seen, market_odds, initial, next_id, step>>

\* execute_trade(&signal) of a signal a caller holds, any number of times
ExecuteTrade(in) ==
    /\ Placements < MaxBets
    /\ LET r == execute_trade(portfolio, trade_count, SignalOf(in)) IN
       /\ portfolio' = r.p
       /\ trade_count' = r.count
       /\ last' = [op |-> "execute_trade", signal |-> SignalOf(in),
                   res |-> r.res]
    /\ UNCHANGED <<features, feed, locks, sim, seen, market_odds, initial, next_id, tasks, step>>

EngineSettleBet(match_id, outcome) ==
    /\ LET r == engine_settle_bet(portfolio, match_id, outcome) IN
       /\ portfolio' = r.p
       /\ last' = [op |-> "engine_settle_bet", match_id |-> match_id,
                   outcome |-> outcome, res |-> r.res]
    /\ UNCHANGED <<features, feed, locks, sim, seen, market_odds, trade_count, initial, next_id, tasks, step>>

UpdateMarketOdds(match_id, odds) ==
    /\ market_odds' = [market_odds EXCEPT ![match_id] = odds]
    /\ last' = [op |-> "update_market_odds"]
    /\ UNCHANGED <<features, feed, locks, sim, seen, portfolio, trade_count, initial, next_id, tasks, step>>

GetPortfolioSummary ==
    /\ last' = [op |-> "get_portfolio_summary",
                res |-> get_portfolio_summary(portfolio, trade_count)]
    /\ UNCHANGED <<features, feed, locks, sim, seen, portfolio, market_odds, trade_count, initial, next_id, tasks, step>>

Next ==
    \/ \E t \in Tasks, pred \in Predictions : ProcessPredictionOdds(t, pred)
    \/ \E t \in Tasks : ProcessPredictionSignal(t)
    \/ \E t \in Tasks : ExecuteReturned(t)
    \/ \E in \in SignalInputs : ExecuteTrade(in)
    \/ \E m \in Matches, outcome \in Outcomes : EngineSettleBet(m, outcome)
    \/ \E m \in Matches, odds \in OddsChoices : UpdateMarketOdds(m, odds)
    \/ GetPortfolioSummary

Spec == Init /\ [][Next]_vars

----------------------------------------------------------------------------
(* Sequential scenarios: SeqLen signals on SeqLen distinct matches, one     *)
(* after another, no settlement in between (tests/trading_engine_tests.rs   *)
(* ::test_concurrent_bet_limit, on an engine with bankroll 10000).          *)

InitSeq ==
    /\ initial = 10000 * Cents
    /\ portfolio = Portfolio_new(initial)
    /\ market_odds = [m \in AllMatches |-> NoOdds]
    /\ trade_count = 0
    /\ next_id = 0
    /\ tasks = [t \in Tasks |-> Idle]
    /\ step = 0
    /\ last = [op |-> "new"]
    /\ sim = MarketSimulator_new
    /\ seen = [m \in Matches |-> Unseen]
    /\ locks = EngineLocks
    /\ features = FeatureEngineer_new
    /\ feed = DataFeedService_new

\* Odds that undervalue the home win of the predictions below
WinningOdds == { Odds(25, 40, 40), Odds(30, 40, 40) }

\* Predictions with a winning edge on the home leg at both WinningOdds
WinningPredictions(m) ==
    { Prediction(m, 60, 20, 20, 80), Prediction(m, 55, 25, 20, 90) }

\* update_market_odds for the next match of the scenario
PipeInstallOdds(odds) ==
    /\ step < SeqLen
    /\ market_odds[Match("mat", step + 1)] = NoOdds
    /\ market_odds' = [market_odds EXCEPT ![Match("mat", step + 1)] = odds]
    /\ last' = [op |-> "update_market_odds"]
    /\ UNCHANGED <<features, feed, locks, sim, seen, portfolio, trade_count, initial, next_id, tasks, step>>

\* process_prediction, then execute_trade of the signal it returned
PipeRun(pred) ==
    /\ step < SeqLen
    /\ market_odds[pred.match_id] # NoOdds
    /\ LET g == process_prediction(risk_manager, portfolio, market_odds,
                                   FreshId, pred)
       IN IF g.res.ok
          THEN LET r == execute_trade(portfolio, trade_count, g.res.value) IN
               /\ portfolio' = r.p
               /\ trade_count' = r.count
               /\ next_id' = next_id + g.ids
               /\ last' = [op |-> "execute_trade", signal |-> g.res.value,
                           res |-> r.res]
          ELSE /\ last' = [op |-> "process_prediction", pred |-> pred,
                           odds |-> market_odds[pred.match_id], res |-> g.res]
               /\ next_id' = next_id + g.ids
               /\ UNCHANGED <<features, feed, locks, sim, seen, portfolio, trade_count>>
    /\ step' = step + 1
    /\ UNCHANGED <<features, feed, locks, sim, seen, market_odds, initial, tasks>>

NextPipe12 ==
    \/ \E odds \in WinningOdds : PipeInstallOdds(odds)
    \/ \E pred \in WinningPredictions(Match("mat", step + 1)) : PipeRun(pred)

SpecPipe12 == InitSeq /\ [][NextPipe12]_vars

\* execute_trade of an affordable, low-risk signal on the next match
ExecStep(stake, risk) ==
    /\ step < SeqLen
    /\ LET bet == BettingDecision_new(FreshId + 1, Match("mat", step + 1),
                                      "HomeWin", stake, 20, 60, "moderate").value
           signal == Signal(bet.match_id, Rat(50, Pct), bet, risk, "Test bet")
           r == execute_trade(portfolio, trade_count, signal)
       IN /\ portfolio' = r.p
          /\ trade_count' = r.count
          /\ last' = [op |-> "execute_trade", signal |-> signal, res |-> r.res]
    /\ next_id' = next_id + 1
    /\ step' = step + 1
    /\ UNCHANGED <<features, feed, locks, sim, seen, market_odds, initial, tasks>>

NextExec12 ==
    \E stake \in {100 * Cents, 200 * Cents}, risk \in {0, 30} : ExecStep(stake, risk)

SpecExec12 == InitSeq /\ [][NextExec12]_vars

----------------------------------------------------------------------------
(* A MarketSimulator driven by its public operations *)

\* MatchStart, a home goal in minute 45, a red card for the away side
SimEvents(m) ==
    { MatchEvent(m, "MatchStart", "none", 0, "none"),
      MatchEvent(m, "Goal", "home", 45, "none"),
      MatchEvent(m, "Card", "away", 30, "Red") }

\* the kinds of event update_odds_for_event passes over
QuietEvents(m) ==
    { MatchEvent(m, type, "none", 46, "none") :
        type \in {"Substitution", "HalfTime", "FullTime", "MatchEnd", "OddsUpdate"} }

NoiseChoices == { <<100, -100, 0>>, <<-100, 0, 100>> }
MarginDraws == { 300, 600 }
DirChoices == { <<1, -1, 0>>, <<-1, 1, 1>> }
TimeFactors == { Pct }
TargetEdges == { 500 }
EdgeDraws == { 100 }

SimInit ==
    /\ initial \in InitialBankrolls
    /\ portfolio = Portfolio_new(initial)
    /\ market_odds = [m \in AllMatches |-> NoOdds]
    /\ trade_count = 0
    /\ next_id = 0
    /\ tasks = [t \in Tasks |-> Idle]
    /\ step = 0
    /\ last = [op |-> "new"]
    /\ sim = MarketSimulator_new
    /\ seen = [m \in Matches |-> Unseen]
    /\ locks = EngineLocks
    /\ features = FeatureEngineer_new
    /\ feed = DataFeedService_new

Called(s) == [s EXCEPT !.calls = @ + 1]

\* a call that stores odds for match_id was made
Stored(match_id, generated) ==
    [m \in Matches |->
       [since_generate |-> IF generated THEN NotReturned
                           ELSE seen[m].since_generate,
        since_write |-> IF m = match_id THEN NotReturned
                        ELSE seen[m].since_write,
        quiet |-> FALSE]]

\* Mutant: the simulator writes into the map the engine reads.
GenerateMarketOdds_shared(event, noise, drawn) ==
    /\ sim.calls < MaxSimOps
    /\ LET r == generate_market_odds(sim, event, noise, drawn) IN
       /\ sim' = Called(r.sim)
       /\ market_odds' = [market_odds EXCEPT ![event.match_id] = r.res.value]
       /\ last' = [op |-> "generate_market_odds", match_id |-> event.match_id,
                   margin |-> get_margin_for_match(sim, event.match_id, drawn),
                   res |-> r.res]
    /\ seen' = Stored(event.match_id, TRUE)
    /\ UNCHANGED <<features, feed, locks, portfolio, trade_count, initial, next_id, tasks, step>>

GenerateMarketOdds(event, noise, drawn) ==
    /\ sim.calls < MaxSimOps
    /\ LET r == generate_market_odds(sim, event, noise, drawn) IN
       /\ sim' = Called(r.sim)
       /\ last' = [op |-> "generate_market_odds", match_id |-> event.match_id,
                   margin |-> get_margin_for_match(sim, event.match_id, drawn),
                   res |-> r.res]
    /\ seen' = Stored(event.match_id, TRUE)
    /\ UNCHANGED <<features, feed, locks, portfolio, market_odds, trade_count, initial, next_id, tasks, step>>

UpdateOddsForEvent(event, noise, drawn) ==
    /\ sim.calls < MaxSimOps
    /\ LET r == update_odds_for_event(sim, event, noise, drawn) IN
       /\ sim' = Called(r.sim)
       /\ last' = [op |-> "update_odds_for_event", match_id |-> event.match_id,
                   event_type |-> event.event_type,
                   margin |-> IF r.res.value = NoOdds THEN NoMargin
                              ELSE get_margin_for_match(sim, event.match_id, drawn),
                   res |-> r.res]
    /\ seen' = Stored(event.match_id, TRUE)
    /\ UNCHANGED <<features, feed, locks, portfolio, market_odds, trade_count, initial, next_id, tasks, step>>

GenerateOddsWithEdge(prediction, target_edge, drawn) ==
    /\ sim.calls < MaxSimOps
    /\ LET r == generate_odds_with_edge(sim, prediction, target_edge, drawn) IN
       /\ sim' = Called(r.sim)
       /\ last' = [op |-> "generate_odds_with_edge",
                   match_id |-> prediction.match_id, res |-> r.res]
    /\ seen' = Stored(prediction.match_id, FALSE)
    /\ UNCHANGED <<features, feed, locks, portfolio, market_odds, trade_count, initial, next_id, tasks, step>>

SimulateMarketMovement(match_id, time_factor, dirs, drawn) ==
    /\ sim.calls < MaxSimOps
    /\ sim' = Called(simulate_market_movement(sim, match_id, time_factor, dirs, drawn))
    /\ last' = [op |-> "simulate_market_movement", match_id |-> match_id,
                margin |-> IF get_current_odds(sim, match_id) = NoOdds
                           THEN NoMargin
                           ELSE get_margin_for_match(sim, match_id, drawn),
                res |-> Ok(TRUE)]
    /\ seen' = Stored(match_id, FALSE)
    /\ UNCHANGED <<features, feed, locks, portfolio, market_odds, trade_count, initial, next_id, tasks, step>>

SetMarginForMatch(match_id, margin) ==
    /\ sim.calls < MaxSimOps
    /\ sim' = Called(set_margin_for_match(sim, match_id, margin))
    /\ last' = [op |-> "set_margin_for_match", match_id |-> match_id]
    /\ seen' = [m \in Matches |-> [seen[m] EXCEPT !.quiet = FALSE]]
    /\ UNCHANGED <<features, feed, locks, portfolio, market_odds, trade_count, initial, next_id, tasks, step>>

GetCurrentOdds(match_id) ==
    /\ LET res == get_current_odds(sim, match_id) IN
       /\ last' = [op |-> "get_current_odds", match_id |-> match_id,
                   before |-> seen[match_id], res |-> res]
       /\ seen' = [seen EXCEPT ![match_id] =
                     [since_generate |-> res, since_write |-> res,
                      quiet |-> TRUE]]
    /\ UNCHANGED <<features, feed, locks, sim, portfolio, market_odds, trade_count, initial, next_id, tasks, step>>

NextSim ==
    \/ \E m \in Matches, noise \in NoiseChoices, drawn \in MarginDraws :
         \E event \in SimEvents(m) : GenerateMarketOdds(event, noise, drawn)
    \/ \E m \in Matches, noise \in NoiseChoices, drawn \in MarginDraws :
         \E event \in SimEvents(m) \cup QuietEvents(m) :
            UpdateOddsForEvent(event, noise, drawn)
    \/ \E prediction \in Predictions, target_edge \in TargetEdges, drawn \in EdgeDraws :
         GenerateOddsWithEdge(prediction, target_edge, drawn)
    \/ \E m \in Matches, time_factor \in TimeFactors, dirs \in DirChoices,
          drawn \in MarginDraws :
         SimulateMarketMovement(m, time_factor, dirs, drawn)
    \/ \E m \in Matches, margin \in MarginDraws : SetMarginForMatch(m, margin)
    \/ \E m \in Matches : GetCurrentOdds(m)

SpecSim == SimInit /\ [][NextSim]_vars

----------------------------------------------------------------------------
(* The pure constructors and predicates, called on inputs of every kind *)

Strategies == { conservative, moderate, aggressive }
StakeInputs == { -100, 0, 1, 100 * Cents }
OddsInputs == { 0, 9, 10, 11, 12, 13, 15, 20, 30, 31, 50, 51, 100, 101 }
ProbInputs == { 0, 10, 33, 45, 50, 53, 55, 60, 80, 100 }
ConfidenceInputs == { 30, 40, 59, 60, 80, 100 }

(***************************************************************************)
(* Prediction models (ml/src/models.rs).  A probability of a model is a    *)
(* multiple of 1/ProbUnit before normalisation and an exact ratio          *)
(* <<num, den>> after it.  The exponentials of softmax and of the Poisson  *)
(* mass function are not computed: predict is applied to their results,    *)
(* which is where the weights and the features enter.                      *)
(***************************************************************************)
ProbUnit == 200

\* p.max(0.01).min(0.98); f64::max returns the other operand for a NaN,
\* so a NaN raw probability is clamped like a 0
ClampProb(x) == Min(Max(x, ProbUnit \div 100), (98 * ProbUnit) \div 100)

\* Prediction::new(.., home/total, away/total, ..)?.with_draw_prob(draw/total)?
NormalizedPrediction(home, draw, away, total) ==
    IF ~(0 <= home /\ home <= total) THEN Err("InvalidProbability")
    ELSE IF ~(0 <= away /\ away <= total) THEN Err("InvalidProbability")
    ELSE IF home + away > total THEN Err("InvalidProbability")
    ELSE IF ~(0 <= draw /\ draw <= total) THEN Err("InvalidProbability")
    ELSE IF Abs(home + draw + away - total) * 1000 > total
         THEN Err("InvalidProbability")
    ELSE Ok([home_win_prob |-> Rat(home, total), draw_prob |-> Rat(draw, total),
             away_win_prob |-> Rat(away, total)])

\* LogisticRegressionModel::predict from the softmax output `probabilities`
LogisticRegressionModel_predict(probabilities) ==
    LET home_win_prob == ClampProb(probabilities[1])
        draw_prob == ClampProb(probabilities[2])
        away_win_prob == ClampProb(probabilities[3])
        total == home_win_prob + draw_prob + away_win_prob
    IN NormalizedPrediction(home_win_prob, draw_prob, away_win_prob, total)

\* PoissonModel::predict from the result of calculate_match_probabilities
PoissonModel_predict(raw) ==
    LET home_win_prob == ClampProb(raw[1])
        draw_prob == ClampProb(raw[2])
        away_win_prob == ClampProb(raw[3])
        total == home_win_prob + draw_prob + away_win_prob
    IN NormalizedPrediction(home_win_prob, draw_prob, away_win_prob, total)

\* (logistic * 0.6 + poisson * 0.4) / 1.0 over the denominator
\* 100 * l[2] * q[2], where 0.01 is l[2] * q[2]
Weighted(l, q) == 10 * (6 * l[1] * q[2] + 4 * q[1] * l[2])

\* EnsembleModel::predict
EnsembleModel_predict(probabilities, raw) ==
    LET logistic_pred == LogisticRegressionModel_predict(probabilities)
        poisson_pred == PoissonModel_predict(raw)
    IN IF ~logistic_pred.ok THEN logistic_pred
       ELSE IF ~poisson_pred.ok THEN poisson_pred
       ELSE
       LET l == logistic_pred.value
           q == poisson_pred.value
           lo == l.home_win_prob[2] * q.home_win_prob[2]
           hi == 98 * lo
           home_win_prob ==
               Clamp(Weighted(l.home_win_prob, q.home_win_prob), lo, hi)
           draw_prob == Clamp(Weighted(l.draw_prob, q.draw_prob), lo, hi)
           away_win_prob ==
               Clamp(Weighted(l.away_win_prob, q.away_win_prob), lo, hi)
           total == home_win_prob + draw_prob + away_win_prob
       IN NormalizedPrediction(home_win_prob, draw_prob, away_win_prob, total)


\* A pure function is called once per behaviour: no call made yet
NoCallYet == last.op = "new"

\* BettingDecision::new(match_id, bet_type, stake, odds, true_probability, ..)
NewDecision(stake, odds, p) ==
    /\ NoCallYet
    /\ last' = [op |-> "BettingDecision_new", stake |-> stake, odds |-> odds,
                p |-> p,
                res |-> BettingDecision_new(FreshId, Match("epl", 1), "HomeWin",
                                            stake, odds, p, "TestStrategy")]
    /\ UNCHANGED <<features, feed, locks, sim, seen, portfolio, market_odds, trade_count, initial,
                   next_id, tasks, step>>

\* strategy.should_bet(odds, true_probability, confidence)
ShouldBet(s, odds, p, confidence) ==
    /\ NoCallYet
    /\ last' = [op |-> "should_bet", strategy |-> s, odds |-> odds, p |-> p,
                confidence |-> confidence,
                res |-> should_bet(s, odds, p, confidence)]
    /\ UNCHANGED <<features, feed, locks, sim, seen, portfolio, market_odds, trade_count, initial,
                   next_id, tasks, step>>

PredictionProbInputs == { -10, 0, 10, 20, 30, 35, 50, 60, 70, 100, 110 }

\* Prediction::new(match_id, .., home_win_prob, away_win_prob, ..)
NewPrediction(home, away) ==
    /\ NoCallYet
    /\ last' = [op |-> "Prediction_new", home |-> home, away |-> away,
                res |-> Prediction_new(Match("epl", 1), home, away)]
    /\ UNCHANGED <<features, feed, locks, sim, seen, portfolio, market_odds, trade_count, initial,
                   next_id, tasks, step>>

\* Prediction::new(..)?.with_draw_prob(draw)
NewPredictionWithDraw(home, away, draw) ==
    /\ NoCallYet
    /\ LET made == Prediction_new(Match("epl", 1), home, away) IN
       last' = [op |-> "with_draw_prob", home |-> home, away |-> away,
                draw |-> draw,
                res |-> IF made.ok THEN with_draw_prob(made.value, draw)
                        ELSE made]
    /\ UNCHANGED <<features, feed, locks, sim, seen, portfolio, market_odds, trade_count, initial,
                   next_id, tasks, step>>

\* softmax outputs: three probabilities that add up to 1 (0 after underflow)
SoftmaxOutputs ==
    { <<67, 67, 66>>, <<197, 3, 0>>, <<198, 1, 1>>, <<200, 0, 0>>,
      <<100, 60, 40>>, <<0, 0, 0>> }

\* calculate_match_probabilities results: scorelines up to 6-6, so they add
\* up to at most 1, to almost 0 for large lambdas, and leave [0, 1] for a
\* negative lambda
PoissonOutputs ==
    { <<90, 50, 58>>, <<0, 0, 0>>, <<151, 49, 0>>, <<-10, 240, 6>>,
      <<30, 40, 120>> }

\* LogisticRegressionModel::predict(features)
LogisticPredict(probabilities) ==
    /\ NoCallYet
    /\ last' = [op |-> "LogisticRegressionModel_predict",
                probabilities |-> probabilities,
                res |-> LogisticRegressionModel_predict(probabilities)]
    /\ UNCHANGED <<features, feed, locks, sim, seen, portfolio, market_odds, trade_count, initial,
                   next_id, tasks, step>>

\* PoissonModel::predict(features)
PoissonPredict(raw) ==
    /\ NoCallYet
    /\ last' = [op |-> "PoissonModel_predict", raw |-> raw,
                res |-> PoissonModel_predict(raw)]
    /\ UNCHANGED <<features, feed, locks, sim, seen, portfolio, market_odds, trade_count, initial,
                   next_id, tasks, step>>

\* EnsembleModel::predict(features)
EnsemblePredict(probabilities, raw) ==
    /\ NoCallYet
    /\ last' = [op |-> "EnsembleModel_predict",
                probabilities |-> probabilities, raw |-> raw,
                res |-> EnsembleModel_predict(probabilities, raw)]
    /\ UNCHANGED <<features, feed, locks, sim, seen, portfolio, market_odds, trade_count, initial,
                   next_id, tasks, step>>


NextPure ==
    \/ \E stake \in StakeInputs, odds \in OddsInputs, p \in ProbInputs :
         NewDecision(stake, odds, p)
    \/ \E s \in Strategies, odds \in OddsInputs \ {0}, p \in ProbInputs,
          confidence \in ConfidenceInputs :
         ShouldBet(s, odds, p, confidence)
    \/ \E home \in PredictionProbInputs, away \in PredictionProbInputs :
         NewPrediction(home, away)
    \/ \E home \in PredictionProbInputs, away \in PredictionProbInputs,
          draw \in PredictionProbInputs :
         NewPredictionWithDraw(home, away, draw)
    \/ \E probabilities \in SoftmaxOutputs : LogisticPredict(probabilities)
    \/ \E raw \in PoissonOutputs : PoissonPredict(raw)
    \/ \E probabilities \in SoftmaxOutputs, raw \in PoissonOutputs :
         EnsemblePredict(probabilities, raw)

SpecPure == Init /\ [][NextPure]_vars

----------------------------------------------------------------------------
----------------------------------------------------------------------------
(* The engine at the level of its locks.  Every task runs one call at a    *)
(* time; a call is suspended only at a lock request, and a poll runs it    *)
(* from the guard it was waiting for to its next lock request or to its    *)
(* return.  Guards are dropped where the Rust scopes end.                  *)

LockInit ==
    /\ initial \in InitialBankrolls
    /\ portfolio = Portfolio_new(initial)
    /\ market_odds = [m \in AllMatches |-> NoOdds]
    /\ trade_count = 0
    /\ next_id = 0
    /\ tasks = [w \in Workers |-> Idle]
    /\ step = 0
    /\ last = [op |-> "new"]
    /\ sim = MarketSimulator_new
    /\ seen = [m \in Matches |-> Unseen]
    /\ locks = EngineLocks
    /\ features = FeatureEngineer_new
    /\ feed = DataFeedService_new

\* the lock a suspended call is waiting for
AwaitedLock(pc) ==
    IF pc \in {"umo_write", "pp_odds"} THEN "market_odds"
    ELSE IF pc \in {"gps_count", "et_count"} THEN "trade_count"
    ELSE "portfolio"

\* the task has a call in progress whose lock request has been granted
Ready(w) ==
    /\ tasks[w].pc # "idle"
    /\ ~Queued(locks[AwaitedLock(tasks[w].pc)], w)

\* the legs of generate_trading_signal in the order they are analysed
Legs(pred, odds) ==
    <<[bet_type |-> "HomeWin", p |-> pred.home_win_prob, odds |-> odds.home_win]>>
    \o (IF pred.draw_prob = NoProb THEN <<>>
        ELSE <<[bet_type |-> "Draw", p |-> pred.draw_prob, odds |-> odds.draw]>>)
    \o <<[bet_type |-> "AwayWin", p |-> pred.away_win_prob, odds |-> odds.away_win]>>

\* the first leg from i on that passes should_bet and so asks for the
\* portfolio (0: none); the others return Ok(None) without a lock
NextLeg(pred, odds, i) ==
    LET legs == Legs(pred, odds)
        S == { j \in i..Len(legs) :
                 should_bet(get_active_strategy, legs[j].odds, legs[j].p,
                            pred.confidence) }
    IN IF S = {} THEN 0 ELSE CHOOSE j \in S : \A k \in S : j <= k

Pending == [pending |-> TRUE]

\* the TradingSignal generate_trading_signal returns for best_bet
SignalFor(pred, best_bet, risk) ==
    Signal(pred.match_id,
           IF best_bet # NoBet
           THEN RatMin(RatMul(BestEdge(best_bet), Rat(pred.confidence, Pct)),
                       Rat(1, 1))
           ELSE RatZero,
           best_bet, risk, Reasoning(best_bet))

\* generate_trading_signal from leg i on, up to its next request of the
\* portfolio lock l or to its return
ScanLegs(w, pred, odds, i, best, l) ==
    LET j == NextLeg(pred, odds, i) IN
    IF j # 0
    THEN [task |-> [pc |-> "pp_leg", pred |-> pred, odds |-> odds,
                    leg |-> j, best |-> best],
          lock |-> acquire(l, w, "read"), res |-> Pending]
    ELSE IF best # NoBet
    THEN [task |-> [pc |-> "pp_risk", pred |-> pred, odds |-> odds,
                    best |-> best],
          lock |-> acquire(l, w, "read"), res |-> Pending]
    ELSE [task |-> Idle, lock |-> l,
          res |-> Ok(SignalFor(pred, NoBet, 0))]

Polled(t, lk, p, count, mo, res) ==
    [task |-> t, locks |-> lk, portfolio |-> p, trade_count |-> count,
     market_odds |-> mo, res |-> res]

\* one poll of the call of task w, which holds the guard it was waiting for
poll(w) ==
    LET c == tasks[w] IN
    CASE c.pc = "umo_write" ->
           Polled(Idle,
                  [locks EXCEPT !.market_odds = release(@, w, "write")],
                  portfolio, trade_count,
                  [market_odds EXCEPT ![c.match_id] = c.odds], Ok(TRUE))
      [] c.pc = "gps_portfolio" ->
           Polled([pc |-> "gps_count"],
                  [locks EXCEPT !.trade_count = acquire(@, w, "read")],
                  portfolio, trade_count, market_odds, Pending)
      [] c.pc = "gps_count" ->
           Polled(Idle,
                  [locks EXCEPT !.trade_count = release(@, w, "read"),
                                !.portfolio = release(@, w, "read")],
                  portfolio, trade_count, market_odds,
                  Ok(get_portfolio_summary(portfolio, trade_count)))
      [] c.pc = "sb_portfolio" ->
           LET r == engine_settle_bet(portfolio, c.match_id, c.outcome) IN
           Polled(Idle, [locks EXCEPT !.portfolio = release(@, w, "write")],
                  r.p, trade_count, market_odds, r.res)
      [] c.pc = "et_portfolio" ->
           LET placed == place_bet(portfolio, c.signal.recommended_bet) IN
           IF ~placed.res.ok
           THEN Polled(Idle,
                       [locks EXCEPT !.portfolio = release(@, w, "write")],
                       portfolio, trade_count, market_odds, placed.res)
           ELSE Polled([pc |-> "et_count", signal |-> c.signal],
                       [locks EXCEPT !.trade_count = acquire(@, w, "write")],
                       placed.p, trade_count, market_odds, Pending)
      [] c.pc = "et_count" ->
           Polled(Idle,
                  [locks EXCEPT !.trade_count = release(@, w, "write"),
                                !.portfolio = release(@, w, "write")],
                  portfolio, trade_count + 1, market_odds, Ok(TRUE))
      [] c.pc = "pp_odds" ->
           LET odds == get_market_odds(market_odds, c.pred.match_id)
               lk == [locks EXCEPT !.market_odds = release(@, w, "read")]
               scan == ScanLegs(w, c.pred, odds, 1, NoBet, lk.portfolio)
           IN IF odds = NoOdds
              THEN Polled(Idle, lk, portfolio, trade_count, market_odds,
                          Ok(NoOddsSignal(c.pred.match_id)))
              ELSE Polled(scan.task, [lk EXCEPT !.portfolio = scan.lock],
                          portfolio, trade_count, market_odds, scan.res)
      [] c.pc = "pp_leg" ->
           LET leg == Legs(c.pred, c.odds)[c.leg]
               r == analyze_bet_opportunity(risk_manager, portfolio,
                        FreshId + c.leg, c.pred.match_id, leg.bet_type,
                        leg.p, leg.odds, c.pred.confidence)
               l == release(locks.portfolio, w, "read")
               scan == ScanLegs(w, c.pred, c.odds, c.leg + 1,
                                Better(c.best, r), l)
           IN IF ~r.ok
              THEN Polled(Idle, [locks EXCEPT !.portfolio = l], portfolio,
                          trade_count, market_odds, r)
              ELSE Polled(scan.task, [locks EXCEPT !.portfolio = scan.lock],
                          portfolio, trade_count, market_odds, scan.res)
      [] c.pc = "pp_risk" ->
           Polled([c EXCEPT !.pc = "pp_corr"],
                  [locks EXCEPT !.portfolio = acquire(@, w, "read")],
                  portfolio, trade_count, market_odds, Pending)
      [] c.pc = "pp_corr" ->
           Polled(Idle,
                  [locks EXCEPT !.portfolio =
                       release(release(@, w, "read"), w, "read")],
                  portfolio, trade_count, market_odds,
                  Ok(SignalFor(c.pred, c.best,
                               assess_risk(risk_manager, portfolio,
                                           c.pred.match_id, c.best))))

\* a poll under which execute_trade drops the portfolio guard when the bet
\* is in and counts the trade on its next poll, with no guard held
Poll_early(w) ==
    /\ Ready(w)
    /\ LET r == poll(w) IN
       /\ tasks' = [tasks EXCEPT ![w] = r.task]
       /\ locks' = IF tasks[w].pc = "et_portfolio" /\ r.task.pc = "et_count"
                   THEN [locks EXCEPT !.portfolio = release(@, w, "write")]
                   ELSE IF tasks[w].pc = "et_count" THEN locks
                   ELSE r.locks
       /\ portfolio' = r.portfolio
       /\ trade_count' = r.trade_count
       /\ market_odds' = r.market_odds
    /\ UNCHANGED <<features, feed, sim, seen, initial, next_id, step, last>>

\* the executor polls a task whose lock request has been granted
Poll(w) ==
    /\ Ready(w)
    /\ LET r == poll(w) IN
       /\ tasks' = [tasks EXCEPT ![w] = r.task]
       /\ locks' = r.locks
       /\ portfolio' = r.portfolio
       /\ trade_count' = r.trade_count
       /\ market_odds' = r.market_odds
    /\ UNCHANGED <<features, feed, sim, seen, initial, next_id, step, last>>

\* engine.process_prediction(&prediction) up to self.market_odds.read()
CallProcessPrediction(w, pred) ==
    /\ tasks[w].pc = "idle"
    /\ tasks' = [tasks EXCEPT ![w] = [pc |-> "pp_odds", pred |-> pred]]
    /\ locks' = [locks EXCEPT !.market_odds = acquire(@, w, "read")]
    /\ UNCHANGED <<features, feed, sim, seen, portfolio, market_odds, trade_count, initial,
                   next_id, step, last>>

\* engine.execute_trade(&signal) up to self.portfolio.write(), or to its
\* return for a signal without a bet or with a risk score above 0.8
CallExecuteTrade(w, in) ==
    /\ tasks[w].pc = "idle"
    /\ Placements < MaxBets
    /\ LET signal == SignalOf(in) IN
       IF signal.recommended_bet # NoBet /\ ~(signal.risk_score > 80)
       THEN /\ tasks' = [tasks EXCEPT ![w] = [pc |-> "et_portfolio",
                                              signal |-> signal]]
            /\ locks' = [locks EXCEPT !.portfolio = acquire(@, w, "write")]
       ELSE UNCHANGED <<features, feed, tasks, locks>>
    /\ UNCHANGED <<features, feed, sim, seen, portfolio, market_odds, trade_count, initial,
                   next_id, step, last>>

\* engine.settle_bet(match_id, outcome) up to self.portfolio.write()
CallSettleBet(w, match_id, outcome) ==
    /\ tasks[w].pc = "idle"
    /\ tasks' = [tasks EXCEPT ![w] = [pc |-> "sb_portfolio",
                                      match_id |-> match_id,
                                      outcome |-> outcome]]
    /\ locks' = [locks EXCEPT !.portfolio = acquire(@, w, "write")]
    /\ UNCHANGED <<features, feed, sim, seen, portfolio, market_odds, trade_count, initial,
                   next_id, step, last>>

\* engine.update_market_odds(match_id, odds) up to self.market_odds.write()
CallUpdateMarketOdds(w, match_id, odds) ==
    /\ tasks[w].pc = "idle"
    /\ tasks' = [tasks EXCEPT ![w] = [pc |-> "umo_write",
                                      match_id |-> match_id, odds |-> odds]]
    /\ locks' = [locks EXCEPT !.market_odds = acquire(@, w, "write")]
    /\ UNCHANGED <<features, feed, sim, seen, portfolio, market_odds, trade_count, initial,
                   next_id, step, last>>

\* engine.get_portfolio_summary() up to self.portfolio.read()
CallGetPortfolioSummary(w) ==
    /\ tasks[w].pc = "idle"
    /\ tasks' = [tasks EXCEPT ![w] = [pc |-> "gps_portfolio"]]
    /\ locks' = [locks EXCEPT !.portfolio = acquire(@, w, "read")]
    /\ UNCHANGED <<features, feed, sim, seen, portfolio, market_odds, trade_count, initial,
                   next_id, step, last>>

\* one signal whose bet takes more than half of the bankroll (its second
\* placement is refused) and one that the risk gate stops
LockSignals == { in \in SignalInputs : in.id \in {2, 4} }

\* the match of those signals, and an outcome that settles their bet
LockMatches == {Match("epl", 1)}
LockOutcomes == {"HomeWin"}

\* a prediction with a leg that passes should_bet at OddsChoices (it asks for
\* the portfolio) and one without (it asks for the odds only)
LockPredictions ==
    { Prediction(Match("epl", 1), 60, 20, 20, 80),
      Prediction(Match("epl", 1), 60, NoProb, 40, 50) }

NextLocks ==
    \/ \E w \in Workers, pred \in LockPredictions :
         CallProcessPrediction(w, pred)
    \/ \E w \in Workers, in \in LockSignals : CallExecuteTrade(w, in)
    \/ \E w \in Workers, m \in LockMatches, outcome \in LockOutcomes :
         CallSettleBet(w, m, outcome)
    \/ \E w \in Workers, m \in LockMatches, odds \in OddsChoices :
         CallUpdateMarketOdds(w, m, odds)
    \/ \E w \in Workers : CallGetPortfolioSummary(w)
    \/ \E w \in Workers : Poll(w)

SpecLocks == LockInit /\ [][NextLocks]_vars

\* The executor polls every task that has been woken, and a granted lock
\* request stays granted until the task is polled: weak fairness of Poll(w),
\* written out with what ENABLED <<Poll(w)>>_vars amounts to, Ready(w) (a
\* poll always moves the call of w on).
PollFair(w) == []<>(~Ready(w)) \/ []<><<Poll(w)>>_vars

FairLocks == SpecLocks /\ \A w \in Workers : PollFair(w)


----------------------------------------------------------------------------
(* apply_risk_constraints called on the portfolio of an engine whose bets  *)
(* callers placed with execute_trade and settled with settle_bet, as the   *)
(* test module of trader.rs calls it with a portfolio of its own.          *)

\* 960 of the 1000 leaves a bankroll below the daily-loss ceiling of 50
RiskSignals ==
    { [id |-> 1, match_id |-> Match("epl", 1), bet_type |-> "HomeWin",
       stake |-> 100 * Cents, odds |-> 20, p |-> 60, risk |-> 30],
      [id |-> 5, match_id |-> Match("lal", 1), bet_type |-> "HomeWin",
       stake |-> 960 * Cents, odds |-> 20, p |-> 60, risk |-> 0],
      [id |-> 6, match_id |-> Match("epl", 1), bet_type |-> "Draw",
       stake |-> 30 * Cents, odds |-> 30, p |-> 40, risk |-> 0] }

\* 2000 is the proposal of test_risk_constraints
ProposedStakes == { 0, 20 * Cents, 40 * Cents, 2000 * Cents }

\* engine.apply_risk_constraints(proposed_stake, match_id, &portfolio)
ApplyRiskConstraints(proposed_stake, match_id) ==
    /\ last' = [op |-> "apply_risk_constraints",
                proposed_stake |-> proposed_stake, match_id |-> match_id,
                res |-> apply_risk_constraints(risk_manager, proposed_stake,
                                               match_id, portfolio)]
    /\ UNCHANGED <<features, feed, locks, sim, seen, portfolio, market_odds, trade_count, initial,
                   next_id, tasks, step>>

NextRisk ==
    \/ \E in \in RiskSignals : ExecuteTrade(in)
    \/ \E m \in Matches, outcome \in Outcomes : EngineSettleBet(m, outcome)
    \/ \E proposed_stake \in ProposedStakes, m \in Matches :
         ApplyRiskConstraints(proposed_stake, m)

SpecRisk == Init /\ [][NextRisk]_vars

----------------------------------------------------------------------------
(* The simulator and the engine side by side, as main.rs runs them: the    *)
(* event processor hands the odds generate_market_odds returned to the     *)
(* engine with update_market_odds(match_id, odds.clone()), and             *)
(* process_prediction reads the engine's map.                              *)

\* trading_engine.update_market_odds(event.match_id.clone(), odds.clone())
\* for the Ok(odds) generate_market_odds has just returned
MainForwardOdds ==
    /\ last.op = "generate_market_odds"
    /\ last.res.ok
    /\ market_odds' = [market_odds EXCEPT ![last.match_id] = last.res.value]
    /\ last' = [op |-> "update_market_odds"]
    /\ UNCHANGED <<features, feed, locks, sim, seen, portfolio, trade_count, initial, next_id,
                   tasks, step>>

CacheMatches == { Match("epl", 1) }
CacheNoise == { <<100, -100, 0>> }

NextCaches ==
    \/ \E m \in CacheMatches, noise \in CacheNoise, drawn \in MarginDraws :
         \E event \in SimEvents(m) : GenerateMarketOdds(event, noise, drawn)
    \/ \E m \in CacheMatches, noise \in CacheNoise, drawn \in MarginDraws :
         \E event \in SimEvents(m) : UpdateOddsForEvent(event, noise, drawn)
    \/ \E prediction \in Predictions, target_edge \in TargetEdges, drawn \in EdgeDraws :
         GenerateOddsWithEdge(prediction, target_edge, drawn)
    \/ \E m \in CacheMatches, time_factor \in TimeFactors, dirs \in DirChoices,
          drawn \in MarginDraws :
         SimulateMarketMovement(m, time_factor, dirs, drawn)
    \/ MainForwardOdds
    \/ \E t \in Tasks, pred \in Predictions : ProcessPredictionOdds(t, pred)
    \/ \E t \in Tasks : ProcessPredictionSignal(t)
    \/ \E t \in Tasks : ExecuteReturned(t)

SpecCaches == Init /\ [][NextCaches]_vars

----------------------------------------------------------------------------
(* FeatureEngineer::update_team_stats (features.rs): per-team totals,      *)
(* strengths and the recent-form window                                    *)

FormWindow == 10        \* recent_form keeps this many results
MaxFormCalls == 11      \* update_team_stats calls in one run

\* (goals_for, goals_against) of one finished match: a win, a draw, a loss
FormScores == { <<2, 1>>, <<1, 1>>, <<0, 1>> }
FormInputs ==
    { <<"Arsenal", sc>> : sc \in FormScores } \cup { <<"Chelsea", <<1, 0>>>> }

\* actual_score > 0.5
IsWin(goals_for, goals_against) == goals_for > goals_against

RatClamp(x, lo, hi) == RatMin(RatMax(x, lo), hi)

\* a window that drops the results arriving after the tenth
update_team_stats_truncate(stats, goals_for, goals_against) ==
    LET gf == stats.goals_for + goals_for
        ga == stats.goals_against + goals_against
        pushed == Append(stats.recent_form, IsWin(goals_for, goals_against))
    IN [goals_for |-> gf,
        goals_against |-> ga,
        attack_strength |-> RatClamp(Rat(gf, 10), Rat(1, 10), Rat(3, 1)),
        defense_strength |-> RatClamp(Rat(10, ga + 1), Rat(1, 10), Rat(3, 1)),
        recent_form |-> IF Len(pushed) > FormWindow
                        THEN SubSeq(pushed, 1, FormWindow) ELSE pushed]

\* the body of update_team_stats on the team's entry
update_team_stats(stats, goals_for, goals_against) ==
    LET gf == stats.goals_for + goals_for
        ga == stats.goals_against + goals_against
        pushed == Append(stats.recent_form, IsWin(goals_for, goals_against))
    IN [goals_for |-> gf,
        goals_against |-> ga,
        attack_strength |-> RatClamp(Rat(gf, 10), Rat(1, 10), Rat(3, 1)),
        defense_strength |-> RatClamp(Rat(10, ga + 1), Rat(1, 10), Rat(3, 1)),
        recent_form |-> IF Len(pushed) > FormWindow
                        THEN Tail(pushed) ELSE pushed]

\* feature_engineer.update_team_stats(team, goals_for, goals_against)
UpdateTeamStats(team, goals_for, goals_against) ==
    /\ features.calls < MaxFormCalls
    /\ LET entry == IF features.team_stats[team] = NoStats
                    THEN TeamStats_default ELSE features.team_stats[team]
       IN features' =
            [features EXCEPT
               !.team_stats[team] =
                    update_team_stats(entry, goals_for, goals_against),
               !.results[team] = Append(@, IsWin(goals_for, goals_against)),
               !.calls = @ + 1]
    /\ last' = [op |-> "update_team_stats", team |-> team]
    /\ UNCHANGED <<feed, portfolio, market_odds, trade_count, initial, next_id,
                   tasks, step, sim, seen, locks>>

\* feature_engineer.get_team_stats(team)
GetTeamStats(team) ==
    /\ last' = [op |-> "get_team_stats", team |-> team,
                res |-> features.team_stats[team]]
    /\ UNCHANGED <<features, feed, portfolio, market_odds, trade_count, initial,
                   next_id, tasks, step, sim, seen, locks>>

NextForm ==
    \/ \E in \in FormInputs : UpdateTeamStats(in[1], in[2][1], in[2][2])
    \/ \E team \in FormTeams : GetTeamStats(team)

SpecForm == Init /\ [][NextForm]_vars

----------------------------------------------------------------------------
(* FeatureEngineer::extract_features and update_context (features.rs).     *)
(* momentum and intensity (f64) are held in 1/10000; the decay             *)
(* momentum * (1 - minute / 90 * 0.1) is momentum * (900 - minute) / 900,  *)
(* rounded toward zero.                                                    *)

CtxScale == 10000
MaxContextOps == 5      \* extract_features calls in one run

\* team_home / team_away of the sample matches
TeamHome(m) == IF m.league = "epl" THEN "Arsenal" ELSE "Real Madrid"
TeamAway(m) == IF m.league = "epl" THEN "Chelsea" ELSE "Barcelona"

TruncDiv(a, b) == IF a >= 0 THEN a \div b ELSE -((-a) \div b)

\* the or_insert_with value of update_context
MatchContext_initial ==
    [minute |-> 0, home_score |-> 0, away_score |-> 0,
     momentum |-> 0, intensity |-> CtxScale \div 2,
     last_goal_minute |-> "none", last_goal_team |-> "none"]

\* a home goal adds 0.3 to the momentum with no upper limit
update_context_unclamped(context, event) ==
    LET c1 ==
          CASE event.event_type = "Goal" /\ event.team = "home" ->
                 [context EXCEPT
                    !.home_score = @ + 1,
                    !.momentum = @ + (3 * CtxScale) \div 10,
                    !.last_goal_minute = event.minute,
                    !.last_goal_team = event.team,
                    !.intensity = Min(@ + (2 * CtxScale) \div 10, CtxScale)]
            [] event.event_type = "Goal" /\ event.team # "home" ->
                 [context EXCEPT
                    !.away_score = @ + 1,
                    !.momentum = Max(@ - (3 * CtxScale) \div 10, -CtxScale),
                    !.last_goal_minute = event.minute,
                    !.last_goal_team = event.team,
                    !.intensity = Min(@ + (2 * CtxScale) \div 10, CtxScale)]
            [] event.event_type = "Card" ->
                 [context EXCEPT
                    !.minute = event.minute,
                    !.intensity = Min(@ + CtxScale \div 10, CtxScale)]
            [] OTHER -> context
    IN [c1 EXCEPT !.momentum = TruncDiv(@ * (900 - c1.minute), 900)]

\* update_context on the match's entry: the event's effect, then the decay
update_context(context, event) ==
    LET c1 ==
          CASE event.event_type = "Goal" /\ event.team = "home" ->
                 [context EXCEPT
                    !.home_score = @ + 1,
                    !.momentum = Min(@ + (3 * CtxScale) \div 10, CtxScale),
                    !.last_goal_minute = event.minute,
                    !.last_goal_team = event.team,
                    !.intensity = Min(@ + (2 * CtxScale) \div 10, CtxScale)]
            [] event.event_type = "Goal" /\ event.team # "home" ->
                 [context EXCEPT
                    !.away_score = @ + 1,
                    !.momentum = Max(@ - (3 * CtxScale) \div 10, -CtxScale),
                    !.last_goal_minute = event.minute,
                    !.last_goal_team = event.team,
                    !.intensity = Min(@ + (2 * CtxScale) \div 10, CtxScale)]
            [] event.event_type = "Card" ->
                 [context EXCEPT
                    !.minute = event.minute,
                    !.intensity = Min(@ + CtxScale \div 10, CtxScale)]
            [] OTHER -> context
    IN [c1 EXCEPT !.momentum = TruncDiv(@ * (900 - c1.minute), 900)]

\* events of a match as extract_features meets them: goals of both sides,
\* cards at minute 0, 30 and 255 (the u8 maximum), a kick-off
ContextEvents(m) ==
    SimEvents(m) \cup
    { MatchEvent(m, "Goal", "away", 80, "none"),
      MatchEvent(m, "Goal", "home", 0, "none"),
      MatchEvent(m, "Card", "home", 0, "Yellow"),
      MatchEvent(m, "Card", "home", 255, "Yellow") }

\* feature_engineer.extract_features(event): update_context, then the
\* feature map; add_team_features creates the entries of both teams.  Of
\* the feature map the result keeps what is read from the match context.
ExtractFeatures(event) ==
    /\ features.calls < MaxContextOps
    /\ LET m == event.match_id
           entry == IF features.match_contexts[m] = NoContext
                    THEN MatchContext_initial ELSE features.match_contexts[m]
           context == update_context(entry, event)
           inserted(t) == IF features.team_stats[t] = NoStats
                          THEN TeamStats_default ELSE features.team_stats[t]
       IN /\ features' =
               [features EXCEPT
                  !.match_contexts[m] = context,
                  !.team_stats =
                      [t \in FormTeams |->
                         IF t \in {TeamHome(m), TeamAway(m)}
                         THEN inserted(t) ELSE @[t]],
                  !.calls = @ + 1]
          /\ last' = [op |-> "extract_features", match_id |-> m,
                      event_type |-> event.event_type,
                      res |-> Ok([minute |-> context.minute,
                                  home_score |-> context.home_score,
                                  away_score |-> context.away_score,
                                  momentum |-> context.momentum,
                                  intensity |-> context.intensity])]
    /\ UNCHANGED <<feed, portfolio, market_odds, trade_count, initial, next_id,
                   tasks, step, sim, seen, locks>>

NextContext ==
    \E m \in Matches : \E event \in ContextEvents(m) : ExtractFeatures(event)

SpecContext == Init /\ [][NextContext]_vars

----------------------------------------------------------------------------
(* DataFeedService in simulation mode (data_feed.rs): one feed cycle per   *)
(* tick of the interval, over the sample matches in the order of the Vec.  *)

NoEvent == [none |-> TRUE]
NoScore == [none |-> TRUE]

BatchSizes == { 1, 2, DefaultBatch }

\* rng: the event probability falls below 0.02 (goal), below 0.05 (card)
\* or above; gen_bool(0.5) picks the home team; gen_bool(0.8) a yellow card
FeedDraws ==
    { [kind |-> "goal", home |-> TRUE, yellow |-> TRUE],
      [kind |-> "goal", home |-> FALSE, yellow |-> TRUE],
      [kind |-> "card", home |-> TRUE, yellow |-> FALSE],
      [kind |-> "none", home |-> TRUE, yellow |-> TRUE] }

\* the or_insert_with value of process_simulation_events
MatchState_initial == [status |-> "Scheduled", score |-> NoScore, minute |-> 0]

\* at: the status of the match state the event was generated from (history)
FeedEvent(type, team, minute, status, score, at) ==
    [event_type |-> type, team |-> team, minute |-> minute,
     status |-> status, score |-> score, at |-> at]

\* generate_next_event(match_data, match_state): the event, or NoEvent
generate_next_event(match_state, draw) ==
    IF match_state.status = "Finished" THEN NoEvent
    ELSE IF match_state.status = "Scheduled"
    THEN FeedEvent("MatchStart", "none", 0, "Live", NoScore, "Scheduled")
    ELSE IF match_state.status = "Live"
    THEN LET event_type ==
               IF draw.kind = "goal" THEN "Goal"
               ELSE IF draw.kind = "card" THEN "Card"
               ELSE IF match_state.minute = 45 THEN "HalfTime"
               ELSE IF match_state.minute >= 90 THEN "FullTime"
               ELSE "none"
             team == IF event_type \in {"Goal", "Card"}
                     THEN (IF draw.home THEN "home" ELSE "away") ELSE "none"
             status == IF match_state.minute >= 90 THEN "Finished"
                       ELSE IF match_state.minute = 45 THEN "HalfTime"
                       ELSE "Live"
             old == IF match_state.score = NoScore
                    THEN [home |-> 0, away |-> 0] ELSE match_state.score
             score == IF event_type # "Goal" THEN NoScore
                      ELSE IF draw.home THEN [old EXCEPT !.home = @ + 1]
                      ELSE [old EXCEPT !.away = @ + 1]
         IN IF event_type = "none" THEN NoEvent
            ELSE FeedEvent(event_type, team, match_state.minute, status,
                           score, "Live")
    ELSE NoEvent

\* the update of the match state after an event has been sent
advance(match_state) ==
    LET minute == Min(match_state.minute + 1, 255)
    IN [match_state EXCEPT
          !.minute = minute,
          !.status = IF minute >= 90 THEN "Finished" ELSE @]

\* the loop of process_simulation_events from match i on, events_sent
\* events having been sent in this cycle: the service afterwards and the
\* Result returned
RECURSIVE simulation_loop(_, _, _, _)
simulation_loop(f, i, events_sent, draws) ==
    IF i > Len(SampleMatches) \/ events_sent >= f.max_events_per_batch
    THEN [feed |-> f, res |-> Ok(events_sent)]
    ELSE
      LET match_state == IF f.active_matches[i] = NoState
                         THEN MatchState_initial ELSE f.active_matches[i]
          entered == [f EXCEPT !.active_matches[i] = match_state]
          event == generate_next_event(match_state, draws[i])
      IN IF event = NoEvent
         THEN simulation_loop(entered, i + 1, events_sent, draws)
         ELSE IF f.receiver_dropped
         THEN [feed |-> entered, res |-> Err("ReceiverDropped")]
         ELSE simulation_loop(
                  [entered EXCEPT !.sent[i] = Append(@, event),
                                  !.active_matches[i] = advance(match_state)],
                  i + 1, events_sent + 1, draws)

\* one feed cycle: process_feed_cycle with enable_simulation
ProcessSimulationEvents(draws) ==
    /\ LET r == simulation_loop(feed, 1, 0, draws) IN
       /\ feed' = r.feed
       /\ last' = [op |-> "process_simulation_events", res |-> r.res]
    /\ UNCHANGED <<features, portfolio, market_odds, trade_count, initial,
                   next_id, tasks, step, sim, seen, locks>>

\* the event processor ends and drops the receiving end of the channel
DropReceiver ==
    /\ ~feed.receiver_dropped
    /\ feed' = [feed EXCEPT !.receiver_dropped = TRUE]
    /\ last' = [op |-> "drop_receiver"]
    /\ UNCHANGED <<features, portfolio, market_odds, trade_count, initial,
                   next_id, tasks, step, sim, seen, locks>>

\* data_feed.get_active_matches(): the indices of the matches not Finished
get_active_matches(f) ==
    { i \in DOMAIN SampleMatches :
        f.active_matches[i] # NoState /\ f.active_matches[i].status # "Finished" }

GetActiveMatches ==
    /\ last' = [op |-> "get_active_matches", res |-> get_active_matches(feed)]
    /\ UNCHANGED <<features, feed, portfolio, market_odds, trade_count, initial,
                   next_id, tasks, step, sim, seen, locks>>

FeedInit ==
    /\ initial \in InitialBankrolls
    /\ portfolio = Portfolio_new(initial)
    /\ market_odds = [m \in AllMatches |-> NoOdds]
    /\ trade_count = 0
    /\ next_id = 0
    /\ tasks = [t \in Tasks |-> Idle]
    /\ step = 0
    /\ last = [op |-> "new"]
    /\ sim = MarketSimulator_new
    /\ seen = [m \in Matches |-> Unseen]
    /\ locks = EngineLocks
    /\ features = FeatureEngineer_new
    /\ feed \in { DataFeedService_with(b) : b \in BatchSizes }

NextFeed ==
    \/ \E draws \in [DOMAIN SampleMatches -> FeedDraws] :
         ProcessSimulationEvents(draws)
    \/ DropReceiver
    \/ GetActiveMatches

SpecFeed == FeedInit /\ [][NextFeed]_vars

----------------------------------------------------------------------------
(* Claims *)

Active == portfolio.active_bets
Historical == portfolio.historical_bets
SeqToSet(q) == { q[i] : i \in 1..Len(q) }

RECURSIVE SettledNet(_)
SettledNet(bets) ==
    IF bets = <<>> THEN 0
    ELSE (IF Head(bets).status = "Won"
          THEN (Head(bets).stake * Head(bets).odds) \div OddsScale ELSE 0)
         - Head(bets).stake + SettledNet(Tail(bets))

\* C1: in every state of a Portfolio created with bankroll B and driven by
\* place_bet and settle_bet calls in any order, successful or failing,
\* available_bankroll = B - (sum of the active stakes) + total_profit_loss,
\* and total_profit_loss is the sum over the settled bets of payout - stake.
C1_BankrollIdentity ==
    /\ portfolio.total_profit_loss = SettledNet(Historical)
    /\ portfolio.available_bankroll =
         initial - SumStakes(Active) + portfolio.total_profit_loss

\* C1 witness: a bet is active, one has been won, and the last call failed.
C1_Witness ==
    /\ Len(Active) >= 1
    /\ \E b \in SeqToSet(Historical) : b.status = "Won"
    /\ last.op \in {"place_bet", "settle_bet"}
    /\ ~last.res.ok

\* C3: place_bet of a bet whose stake is greater than available_bankroll
\* returns an error and leaves available_bankroll, active_bets,
\* historical_bets and total_profit_loss (the whole portfolio) as they were.
C3_InsufficientFundsRefused ==
    [][(last'.op = "place_bet" /\ last'.bet.stake > portfolio.available_bankroll)
         => (~last'.res.ok /\ portfolio' = portfolio)]_vars

\* C3 witness: a place_bet was refused for a stake above the funds left
\* after an earlier bet.
C3_Witness ==
    /\ last.op = "place_bet"
    /\ ~last.res.ok
    /\ last.bet.stake > portfolio.available_bankroll
    /\ last.bet.stake <= initial
    /\ Len(Active) >= 1

\* C4: a successful place_bet lowers available_bankroll by exactly the stake
\* and appends the bet (Placed) to active_bets; settle_bet of an active bet
\* succeeds, removes it from active_bets, appends it to historical_bets,
\* credits stake * odds to available_bankroll if it won and nothing if it
\* lost, and changes total_profit_loss by payout - stake.  With bankroll
\* 1000, stake 100 at odds 2.0: 900 available and 1 active bet after
\* placing; 1100 available, profit +100 and no active bet after a win.
C4_PlaceThenSettle ==
    [][/\ (last'.op = "place_bet" /\ last'.res.ok) =>
            /\ portfolio'.available_bankroll =
                 portfolio.available_bankroll - last'.bet.stake
            /\ portfolio'.active_bets =
                 Active \o << [last'.bet EXCEPT !.status = "Placed"] >>
            /\ portfolio'.historical_bets = Historical
            /\ portfolio'.total_profit_loss = portfolio.total_profit_loss
       /\ (last'.op = "settle_bet"
             /\ \E b \in SeqToSet(Active) : b.id = last'.bet_id) =>
            /\ last'.res.ok
            /\ \E i \in 1..Len(Active) :
                 LET b == Active[i]
                     credit == IF last'.won
                               THEN (b.stake * b.odds) \div OddsScale ELSE 0
                 IN /\ b.id = last'.bet_id
                    /\ portfolio'.active_bets =
                         SubSeq(Active, 1, i - 1) \o SubSeq(Active, i + 1, Len(Active))
                    /\ portfolio'.historical_bets = Historical \o
                         << [b EXCEPT !.status = IF last'.won THEN "Won" ELSE "Lost"] >>
                    /\ portfolio'.available_bankroll =
                         portfolio.available_bankroll + credit
                    /\ portfolio'.total_profit_loss =
                         portfolio.total_profit_loss + credit - b.stake
       /\ (/\ portfolio = Portfolio_new(1000 * Cents)
           /\ last'.op = "place_bet"
           /\ last'.bet.stake = 100 * Cents) =>
            /\ portfolio'.available_bankroll = 900 * Cents
            /\ Len(portfolio'.active_bets) = 1
       /\ (/\ portfolio.available_bankroll = 900 * Cents
           /\ Historical = <<>>
           /\ Len(Active) = 1
           /\ last'.op = "settle_bet"
           /\ last'.won
           /\ Active[1].id = last'.bet_id
           /\ Active[1].odds = 2 * OddsScale) =>
            /\ portfolio'.available_bankroll = 1100 * Cents
            /\ portfolio'.total_profit_loss = 100 * Cents
            /\ portfolio'.active_bets = <<>>
      ]_vars

\* C4 witness: the scenario's last state (bankroll 1000, stake 100 at odds
\* 2.0 placed and won).
C4_Witness ==
    /\ initial = 1000 * Cents
    /\ Active = <<>>
    /\ Len(Historical) = 1
    /\ Historical[1].stake = 100 * Cents
    /\ Historical[1].odds = 2 * OddsScale
    /\ Historical[1].status = "Won"
    /\ portfolio.available_bankroll = 1100 * Cents
    /\ portfolio.total_profit_loss = 100 * Cents
    /\ last.op = "settle_bet"

C5_StatusLifecycle ==
    /\ \A b \in SeqToSet(Active) : b.status = "Placed"
    /\ \A b \in SeqToSet(Historical) : b.status \in {"Won", "Lost"}
    /\ \A h \in SeqToSet(Historical), a \in SeqToSet(Active) : h.id # a.id

\* C8: process_prediction for a match for which the engine holds no odds
\* returns Ok with a signal of strength 0, no recommended bet and the reason
\* "No market odds available".
C8_NoOddsSignal ==
    (last.op = "process_prediction"
       /\ market_odds[last.pred.match_id] = NoOdds) =>
        /\ last.res.ok
        /\ last.res.value.match_id = last.pred.match_id
        /\ last.res.value.signal_strength = RatZero
        /\ last.res.value.recommended_bet = NoBet
        /\ last.res.value.reasoning = "No market odds available"

\* C8 witness: process_prediction returned for a match without odds while
\* the engine holds odds for another match.
C8_Witness ==
    /\ last.op = "process_prediction"
    /\ market_odds[last.pred.match_id] = NoOdds
    /\ \E m \in Matches : market_odds[m] # NoOdds
    /\ last.res.ok

LegPasses(pred, odds) ==
    \/ should_bet(get_active_strategy, odds.home_win, pred.home_win_prob,
                  pred.confidence)
    \/ /\ pred.draw_prob # NoProb
       /\ should_bet(get_active_strategy, odds.draw, pred.draw_prob,
                     pred.confidence)
    \/ should_bet(get_active_strategy, odds.away_win, pred.away_win_prob,
                  pred.confidence)

LimitsLeaveRoom(match_id) ==
    /\ portfolio.available_bankroll > 0
    /\ Len(Active) < risk_manager.max_concurrent_bets
    /\ SumStakes(OnMatch(Active, match_id)) < risk_manager.max_exposure_per_match
    /\ risk_manager.current_daily_loss < risk_manager.max_daily_loss

\* C9: when the engine holds odds for the match, at least one leg passes the
\* active strategy's gate and bankroll, exposure and concurrency limits
\* leave room, process_prediction returns Ok with a recommended bet of
\* stake > 0 and signal_strength > 0.
C9_EdgeYieldsBet ==
    (/\ last.op = "process_prediction"
     /\ last.odds # NoOdds
     /\ LegPasses(last.pred, last.odds)
     /\ LimitsLeaveRoom(last.pred.match_id)) =>
        /\ last.res.ok
        /\ last.res.value.recommended_bet # NoBet
        /\ last.res.value.recommended_bet.stake > 0
        /\ RatGT(last.res.value.signal_strength, RatZero)

\* C10: execute_trade on a signal whose risk score is above 0.8 returns
\* Ok(false) and places nothing: available_bankroll, active_bets (the whole
\* portfolio) and the trade count are unchanged.
C10_RiskGate ==
    [][(/\ last'.op = "execute_trade"
        /\ last'.signal.recommended_bet # NoBet
        /\ last'.signal.risk_score > 80) =>
          /\ last'.res = Ok(FALSE)
          /\ portfolio' = portfolio
          /\ trade_count' = trade_count]_vars

\* C10 witness: an affordable bet on a signal of risk above 0.8 was refused.
C10_Witness ==
    /\ last.op = "execute_trade"
    /\ last.signal.recommended_bet # NoBet
    /\ last.signal.risk_score > 80
    /\ last.signal.recommended_bet.stake <= portfolio.available_bankroll
    /\ last.res = Ok(FALSE)

\* C6: 12 winning-edge predictions on 12 distinct matches with odds
\* installed, each handled by process_prediction and then execute_trade,
\* leave exactly 10 active bets and never 11.
C6_TwelvePredictions ==
    /\ Len(Active) <= 10
    /\ step = SeqLen => Len(Active) = 10

\* C7: execute_trade never lets the number of active bets exceed the cap of
\* 10: 12 calls in sequence with affordable, low-risk signals on distinct
\* matches leave exactly 10 active bets and an exposure of their 10 stakes.
C7_ConcurrentCap ==
    /\ Len(Active) <= risk_manager.max_concurrent_bets
    /\ step = SeqLen =>
         /\ Len(Active) = 10
         /\ total_exposure(portfolio) = SumStakes(SubSeq(Active, 1, 10))

\* C11: execute_trade on a signal whose stake is larger than the available
\* bankroll does not execute: it returns Ok(false), not an error, and
\* available_bankroll, the active bets and the trade count are unchanged.
C11_InsufficientFundsFalse ==
    [][(/\ last'.op = "execute_trade"
        /\ last'.signal.recommended_bet # NoBet
        /\ last'.signal.recommended_bet.stake > portfolio.available_bankroll) =>
          /\ last'.res = Ok(FALSE)
          /\ portfolio' = portfolio
          /\ trade_count' = trade_count]_vars

ActiveIds == { b.id : b \in SeqToSet(Active) }
HistoricalIds == { b.id : b \in SeqToSet(Historical) }

\* C12: settle_bet with an id that is not among the active bets, because it
\* was never placed or because it is already settled, fails with the
\* not-found error and leaves the portfolio unchanged, so that a bet is
\* settled at most once.
C12_SettleOnce ==
    [][(/\ last'.op = "settle_bet"
        /\ \/ last'.bet_id \notin ActiveIds
           \/ last'.bet_id \in HistoricalIds) =>
          /\ last'.res = Err("MatchNotFound")
          /\ portfolio' = portfolio]_vars

\* C13: the active bets are unique by id: after any sequence of
\* execute_trade and settle_bet calls, including executing the same signal
\* more than once, no two bets in active_bets have the same id.
C13_ActiveUniqueById ==
    \A i, j \in 1..Len(Active) : Active[i].id = Active[j].id => i = j

C15_NewValidates ==
    last.op = "BettingDecision_new" =>
      /\ (last.odds <= OddsScale \/ last.stake <= 0) => ~last.res.ok
      /\ last.res.ok =>
           /\ last.res.value.stake = last.stake
           /\ last.res.value.odds = last.odds
           /\ last.res.value.stake > 0
           /\ last.res.value.odds > OddsScale
           /\ last.res.value.status = "Pending"

\* C15 witness: the boundary inputs, odds 1.0 with a positive stake, fail.
C15_Witness ==
    /\ last.op = "BettingDecision_new"
    /\ last.odds = OddsScale
    /\ last.stake > 0
    /\ ~last.res.ok

\* C16: for every strategy tier and every odds, true probability and
\* confidence: whenever should_bet returns true, the edge (true probability
\* - 1/odds) is >= the strategy's minimum edge, the confidence is >= its
\* minimum confidence and the odds lie within [min_odds, max_odds].
C16_ShouldBetSound ==
    (last.op = "should_bet" /\ last.res) =>
      /\ RatGE(<<last.p * last.odds - Pct * OddsScale, Pct * last.odds>>,
               <<last.strategy.min_edge, Pct>>)
      /\ last.confidence >= last.strategy.min_confidence
      /\ last.strategy.min_odds <= last.odds
      /\ last.odds <= last.strategy.max_odds

\* C16 witness: the conservative tier accepts a bet.
C16_Witness ==
    /\ last.op = "should_bet"
    /\ last.res
    /\ last.strategy = conservative

C18_PredictionValid ==
    last.op \in {"Prediction_new", "with_draw_prob"} =>
      LET given == IF last.op = "with_draw_prob"
                   THEN {last.home, last.away, last.draw}
                   ELSE {last.home, last.away}
          v == last.res.value
          sum == v.home_win_prob + v.away_win_prob +
                 (IF v.draw_prob = NoProb THEN 0 ELSE v.draw_prob)
      IN /\ last.res.ok =>
              /\ v.home_win_prob = last.home /\ v.away_win_prob = last.away
              /\ 0 <= v.home_win_prob /\ v.home_win_prob <= Pct
              /\ 0 <= v.away_win_prob /\ v.away_win_prob <= Pct
              /\ v.draw_prob # NoProb => (0 <= v.draw_prob /\ v.draw_prob <= Pct)
              /\ 1000 * (sum - Pct) <= Pct
              /\ 1000 * (Pct - sum) <= Pct
         /\ (\E prob \in given : prob < 0 \/ prob > Pct) => ~last.res.ok
         /\ last.home + last.away > Pct => ~last.res.ok
         /\ (last.op = "with_draw_prob"
               /\ 1000 * Abs(last.home + last.away + last.draw - Pct) > Pct) =>
              ~last.res.ok

\* C18 witness: a prediction with an explicit draw probability was built.
C18_Witness ==
    /\ last.op = "with_draw_prob"
    /\ last.res.ok
    /\ last.res.value.draw_prob = last.draw
    /\ last.draw > 0

\* C19: after a placed bet is settled and no bet remains active, the
\* portfolio summary's total_bankroll and available_bankroll both equal the
\* initial bankroll plus the realized profit or loss.
C19_SummaryBankroll ==
    (/\ last.op = "get_portfolio_summary"
     /\ Active = <<>>
     /\ Historical # <<>>) =>
        /\ last.res.available_bankroll = initial + portfolio.total_profit_loss
        /\ last.res.total_bankroll = initial + portfolio.total_profit_loss

\* C20: the ROI reported by the portfolio after settlements is the realized
\* profit divided by the initial bankroll.
C20_RoiOnBankroll ==
    Historical # <<>> =>
        portfolio.roi[1] * initial = portfolio.total_profit_loss * portfolio.roi[2]

ModelOps ==
    { "LogisticRegressionModel_predict", "PoissonModel_predict",
      "EnsembleModel_predict" }

ProbInModelRange(x) == 100 * x[1] >= x[2] /\ 100 * x[1] <= 98 * x[2]

\* C21: predict of the Logistic, Poisson and Ensemble models returns home,
\* draw and away probabilities that each lie in [0.01, 0.98] and that add up
\* to 1 within 1e-3
C21_ProbabilitiesInRange ==
    last.op \in ModelOps =>
        /\ last.res.ok
        /\ LET v == last.res.value
               total == v.home_win_prob[2]
           IN /\ ProbInModelRange(v.home_win_prob)
              /\ ProbInModelRange(v.draw_prob)
              /\ ProbInModelRange(v.away_win_prob)
              /\ Abs(v.home_win_prob[1] + v.draw_prob[1] + v.away_win_prob[1]
                     - total) * 1000 <= total

\* the part of C21 that holds: predict succeeds and the three probabilities
\* add up to 1
C21_SumsToOne ==
    last.op \in ModelOps =>
        /\ last.res.ok
        /\ LET v == last.res.value IN
           v.home_win_prob[1] + v.draw_prob[1] + v.away_win_prob[1]
               = v.home_win_prob[2]

HoldsPortfolioWrite(w) == locks.portfolio.writer = w

\* C22: every started operation eventually completes
C22_EveryCallCompletes ==
    \A w \in Workers : (tasks[w].pc # "idle") ~> (tasks[w].pc = "idle")

\* a task waits in the queue of the portfolio lock behind a guard of another
\* task
C22_Witness ==
    \E w \in Workers :
        /\ Queued(locks.portfolio, w)
        /\ \E v \in Workers \ {w} :
             locks.portfolio.writer = v \/ locks.portfolio.readers[v] > 0

\* C23: a task that holds the portfolio write lock is not at a lock request
\* or any other suspension point of its call
C23_NoAwaitUnderWrite ==
    \A w \in Workers :
        HoldsPortfolioWrite(w) => tasks[w].pc \notin {"et_count"}

\* C24: process_prediction never changes the portfolio.  Every step of a
\* process_prediction call (the odds lookup and the signal generation,
\* whatever they return) leaves the portfolio (available_bankroll,
\* active_bets, historical_bets, total_profit_loss) and the trade count as
\* they were, and a step that changes the portfolio is a step of
\* execute_trade or of settle_bet.
C24_ProcessPredictionFrame ==
    [][/\ (\E t \in Tasks : tasks'[t] # tasks[t] /\ tasks[t].pc # "has_signal")
             => /\ portfolio' = portfolio
                /\ trade_count' = trade_count
       /\ portfolio' # portfolio
             => last'.op \in {"execute_trade", "engine_settle_bet"}]_vars

\* C24 witness: process_prediction returned (here with an error) on an
\* engine whose portfolio holds a bet and whose trade count is not 0.
C24_Witness ==
    /\ last.op = "process_prediction"
    /\ ~last.res.ok
    /\ Active # <<>>
    /\ trade_count > 0
    /\ \A t \in Tasks : tasks[t].pc = "idle"

\* The legs of a prediction that pass the active strategy's gate, by their
\* position in the order home, draw, away, and the edge of a leg as
\* BettingDecision::new computes it (bet.confidence).
PassingLegs(pred, odds) ==
    { i \in DOMAIN Legs(pred, odds) :
        should_bet(get_active_strategy, Legs(pred, odds)[i].odds,
                   Legs(pred, odds)[i].p, pred.confidence) }

LegEdge(leg) == Rat(leg.p * leg.odds - Pct * OddsScale, Pct * leg.odds)

\* the passing leg of highest edge, the last one of those with that edge
HighestEdgeLeg(pred, odds) ==
    LET legs == Legs(pred, odds)
        S == PassingLegs(pred, odds)
    IN CHOOSE i \in S :
         \A k \in S : /\ RatGE(LegEdge(legs[i]), LegEdge(legs[k]))
                      /\ k > i => RatGT(LegEdge(legs[i]), LegEdge(legs[k]))

\* C25: when legs of the prediction yield a bet (they pass the gate and the
\* limits leave room), process_prediction returns the signal whose
\* recommended bet is on the leg of highest edge, and on the last evaluated
\* of the legs that share the highest edge.
C25_KeepsHighestEdge ==
    (/\ last.op = "process_prediction"
     /\ last.odds # NoOdds
     /\ PassingLegs(last.pred, last.odds) # {}
     /\ LimitsLeaveRoom(last.pred.match_id)) =>
        /\ last.res.ok
        /\ last.res.value.recommended_bet # NoBet
        /\ last.res.value.recommended_bet.bet_type =
             Legs(last.pred, last.odds)[HighestEdgeLeg(last.pred, last.odds)].bet_type

\* C26: for every proposed stake and portfolio the stake that
\* apply_risk_constraints returns is at least 0, at most the proposed stake
\* and at most 95% of the portfolio's available bankroll.
C26_StakeWithinBuffer ==
    last.op = "apply_risk_constraints" =>
        /\ last.res >= 0
        /\ last.res <= last.proposed_stake
        /\ last.res * Pct <= 95 * portfolio.available_bankroll

\* the two bounds of C26 that do not involve the buffer
C26_BetweenZeroAndProposed ==
    last.op = "apply_risk_constraints" =>
        /\ last.res >= 0
        /\ last.res <= last.proposed_stake

C27_NoBetSizedByEngine ==
    \A t \in Tasks :
        tasks[t].pc = "has_signal" => tasks[t].signal.recommended_bet = NoBet

\* the stakes of the bets settled as lost
RealizedLoss ==
    SumStakes(SelectSeq(Historical, LAMBDA b : b.status = "Lost"))

\* C28: once the bets settled as lost add up to max_daily_loss (5% of the
\* initial bankroll) or more, apply_risk_constraints returns 0 for every
\* proposal, and before that it returns at most the loss budget that
\* remains.
C28_DailyLossCap ==
    last.op = "apply_risk_constraints" =>
        IF RealizedLoss >= risk_manager.max_daily_loss
        THEN last.res = 0
        ELSE last.res <= risk_manager.max_daily_loss - RealizedLoss

NotOnMatch(bets, match_id) == SelectSeq(bets, LAMBDA b : b.match_id # match_id)

\* the bets as settle_bet files them: won when the bet type is the outcome
SettledAs(bets, outcome) ==
    [i \in 1..Len(bets) |->
       update_status(bets[i], IF bets[i].bet_type = outcome THEN "Won"
                              ELSE "Lost")]

\* C29: TradingEngine.settle_bet(match_id, outcome) returns Ok, settles
\* every active bet on the match (as won exactly when its bet type is the
\* outcome, as lost otherwise) and only those: afterwards no active bet on
\* the match remains, the active bets on other matches are as before, and
\* the bets of the match are appended to the historical bets.
C29_SettlesTheMatch ==
    [][last'.op = "engine_settle_bet" =>
         /\ last'.res.ok
         /\ OnMatch(portfolio'.active_bets, last'.match_id) = <<>>
         /\ NotOnMatch(portfolio'.active_bets, last'.match_id)
              = NotOnMatch(portfolio.active_bets, last'.match_id)
         /\ portfolio'.historical_bets
              = portfolio.historical_bets
                \o SettledAs(OnMatch(portfolio.active_bets, last'.match_id),
                             last'.outcome)]_vars

\* C29 witness: settle_bet settled a bet of the match as won while a bet on
\* another match stays active.
C29_Witness ==
    /\ last.op = "engine_settle_bet"
    /\ \E i \in DOMAIN Historical :
         /\ Historical[i].match_id = last.match_id
         /\ Historical[i].status = "Won"
    /\ OnMatch(Active, last.match_id) = <<>>
    /\ Active # <<>>

\* the calls that compute odds from a margin; last.margin is the margin the
\* call used, NoMargin when it computed no odds
UsedMargin(l) ==
    /\ l.op \in {"generate_market_odds", "update_odds_for_event",
                 "simulate_market_movement"}
    /\ l.margin # NoMargin

\* C30: two successive calls that compute odds for the same match, with no
\* set_margin_for_match (and no other call) in between, use the same
\* margin.
C30_MarginFixed ==
    [][(/\ UsedMargin(last)
        /\ UsedMargin(last')
        /\ last'.match_id = last.match_id) =>
           last'.margin = last.margin]_vars

\* once set_margin_for_match has stored a margin for the match, every call
\* uses it
C30_SetMarginUsed ==
    UsedMargin(last) =>
        \/ sim.base_margins[last.match_id] = NoMargin
        \/ last.margin = sim.base_margins[last.match_id]

\* C31: no MarketSimulator operation changes the odds the engine holds and
\* process_prediction reads: a step that changes the simulator leaves the
\* engine's market_odds as they were, and the engine's odds change only in
\* a step of update_market_odds.
C31_CachesIndependent ==
    [][/\ sim' # sim => market_odds' = market_odds
       /\ market_odds' # market_odds => last'.op = "update_market_odds"]_vars

\* C31 witness: process_prediction read the odds the engine was given for a
\* match after the simulator had stored other odds for that match.
C31_Witness ==
    /\ last.op = "get_market_odds"
    /\ last.res # NoOdds
    /\ \E t \in Tasks :
         /\ tasks[t].pc = "pp_signal"
         /\ market_odds[tasks[t].pred.match_id] = last.res
         /\ sim.market_odds[tasks[t].pred.match_id] \notin {NoOdds, last.res}

\* C32: update_odds_for_event regenerates and stores odds only for Goal and
\* Card events: for those it returns the odds it stored for the event's
\* match, and for every other kind of event it returns None and leaves the
\* stored odds of every match as they were.
C32_OnlyGoalAndCard ==
    [][last'.op = "update_odds_for_event" =>
         IF last'.event_type \in {"Goal", "Card"}
         THEN /\ last'.res.ok
              /\ last'.res.value # NoOdds
              /\ sim'.market_odds =
                   [sim.market_odds EXCEPT ![last'.match_id] = last'.res.value]
         ELSE /\ last'.res = Ok(NoOdds)
              /\ sim'.market_odds = sim.market_odds]_vars

\* C32 witness: update_odds_for_event returned None for an event that is
\* neither a goal nor a card, on a match the simulator holds odds for.
C32_Witness ==
    /\ last.op = "update_odds_for_event"
    /\ last.event_type \notin {"Goal", "Card"}
    /\ last.res = Ok(NoOdds)
    /\ sim.market_odds[last.match_id] # NoOdds

\* C33: after any sequence of update_team_stats calls, every team's
\* recent_form holds at most 10 entries and they are the results of the
\* team's most recent calls, in call order
C33_RecentFormWindow ==
    \A t \in FormTeams :
        LET history == features.results[t]
            n == Len(history)
        IN IF features.team_stats[t] = NoStats
           THEN n = 0
           ELSE /\ Len(features.team_stats[t].recent_form) <= 10
                /\ features.team_stats[t].recent_form =
                       SubSeq(history, Max(1, n - 9), n)

\* an eleventh result has arrived and pushed out a first result that
\* differs from the one now oldest
C33_Witness ==
    /\ last.op = "update_team_stats"
    /\ Len(features.results[last.team]) = 11
    /\ features.results[last.team][1] # features.results[last.team][2]
    /\ Len(features.team_stats[last.team].recent_form) = 10
    /\ features.team_stats[last.team].recent_form[10] =
           features.results[last.team][11]

\* C34: after any sequence of events processed by extract_features, the
\* momentum of every match context lies in [-1, 1] and its intensity in
\* [0, 1]
C34_ContextBounds ==
    \A m \in Matches :
        features.match_contexts[m] # NoContext =>
            /\ features.match_contexts[m].momentum >= -CtxScale
            /\ features.match_contexts[m].momentum <= CtxScale
            /\ features.match_contexts[m].intensity >= 0
            /\ features.match_contexts[m].intensity <= CtxScale

\* a fourth home goal has arrived at a context whose momentum was 0.9 and
\* whose intensity was already 1: both sit at their upper limit
C34_Witness ==
    /\ last.op = "extract_features"
    /\ last.event_type = "Goal"
    /\ features.match_contexts[last.match_id].home_score = 4
    /\ features.match_contexts[last.match_id].momentum = CtxScale
    /\ features.match_contexts[last.match_id].intensity = CtxScale

\* the call of w returns from execute_trade with Ok(true) in this step
ReturnsTrue(w) == tasks[w].pc = "et_count" /\ tasks'[w].pc = "idle"

\* C35: whenever get_portfolio_summary reads the trade count, under any
\* interleaving of execute_trade, settle_bet and the other calls, the
\* total_trades it reports equals the number of active bets plus the number
\* of settled bets; and the count changes only by growing by one in the
\* step in which an execute_trade call returns true, and does so in every
\* such step
C35_TradeCountIsPlacements ==
    /\ [](\A w \in Workers :
            tasks[w].pc = "gps_count" /\ Ready(w) =>
               get_portfolio_summary(portfolio, trade_count).total_trades =
                   Len(portfolio.active_bets) + Len(portfolio.historical_bets))
    /\ [][IF \E w \in Workers : ReturnsTrue(w)
          THEN trade_count' = trade_count + 1
          ELSE trade_count' = trade_count]_vars

\* a summary is about to read the count of an engine that has placed and
\* settled a bet, while an execute_trade call waits for the portfolio
C35_Witness ==
    \E w, v \in Workers :
        /\ tasks[w].pc = "gps_count"
        /\ Ready(w)
        /\ trade_count = 1
        /\ Len(portfolio.historical_bets) = 1
        /\ tasks[v].pc = "et_portfolio"
        /\ Queued(locks.portfolio, v)

InPlay == {"Goal", "Card", "Substitution", "HalfTime", "FullTime"}

\* C36: for every match the feed emits MatchStart at most once, as the
\* first event of the match; every later event is an in-play event
\* generated from a live match state, and no event is generated from a
\* Finished one
C36_StartsEachMatchOnce ==
    \A i \in DOMAIN SampleMatches :
        \A k \in 1..Len(feed.sent[i]) :
            /\ feed.sent[i][k].at # "Finished"
            /\ k >= 2 => /\ feed.sent[i][k].event_type # "MatchStart"
                         /\ feed.sent[i][k].event_type \in InPlay
                         /\ feed.sent[i][k].at = "Live"

\* the part of C36 that holds: nothing is emitted for a match once its
\* state is Finished
C36_NothingAfterFinished ==
    [][\A i \in DOMAIN SampleMatches :
         (feed.active_matches[i] # NoState
            /\ feed.active_matches[i].status = "Finished")
         => feed'.sent[i] = feed.sent[i]]_vars

====
